---- MODULE Spec2Model ----
(***************************************************************************)
(* Model of hx.cfg.config.quiet_time / qt_parse (src/hx/cfg.py) and of the *)
(* helpers they call (src/hx/util.py).  Strings are TLA+ strings, read     *)
(* character by character with SubSeq; times are whole epoch seconds and   *)
(* the local time zone is UTC, so every local day has 24*3600 seconds.     *)
(***************************************************************************)
EXTENDS Integers, Sequences, FiniteSets, TLC

\* ------------------------------------------------------------------------
\* Strings
\* ------------------------------------------------------------------------
Ch(s, i) == SubSeq(s, i, i)

Digits == {"0", "1", "2", "3", "4", "5", "6", "7", "8", "9"}

DigitVal(c) ==
    CASE c = "0" -> 0 [] c = "1" -> 1 [] c = "2" -> 2 [] c = "3" -> 3
      [] c = "4" -> 4 [] c = "5" -> 5 [] c = "6" -> 6 [] c = "7" -> 7
      [] c = "8" -> 8 [] c = "9" -> 9

IsDigit(s, i) == i >= 1 /\ i <= Len(s) /\ Ch(s, i) \in Digits

\* int() of a run of decimal digits s[a..b]
RECURSIVE IntOf(_, _, _)
IntOf(s, a, b) ==
    IF b < a THEN 0 ELSE IntOf(s, a, b - 1) * 10 + DigitVal(Ch(s, b))

\* the lower-case form of each upper-case letter
LowerOf ==
    [A |-> "a", B |-> "b", C |-> "c", D |-> "d", E |-> "e", F |-> "f", G |-> "g",
     H |-> "h", I |-> "i", J |-> "j", K |-> "k", L |-> "l", M |-> "m", N |-> "n",
     O |-> "o", P |-> "p", Q |-> "q", R |-> "r", S |-> "s", T |-> "t", U |-> "u",
     V |-> "v", W |-> "w", X |-> "x", Y |-> "y", Z |-> "z"]

LowerCh(c) == IF c \in DOMAIN LowerOf THEN LowerOf[c] ELSE c

\* str.lower()
RECURSIVE Lower(_)
Lower(s) ==
    IF Len(s) = 0 THEN "" ELSE Lower(SubSeq(s, 1, Len(s) - 1)) \o LowerCh(Ch(s, Len(s)))

Whitespace == {" ", "\t", "\n", "\r"}

\* str.strip()
RECURSIVE LStrip(_)
LStrip(s) ==
    IF Len(s) > 0 /\ Ch(s, 1) \in Whitespace THEN LStrip(SubSeq(s, 2, Len(s))) ELSE s

RECURSIVE RStrip(_)
RStrip(s) ==
    IF Len(s) > 0 /\ Ch(s, Len(s)) \in Whitespace
    THEN RStrip(SubSeq(s, 1, Len(s) - 1)) ELSE s

Strip(s) == LStrip(RStrip(s))

\* the python test  sub in s
Contains(sub, s) ==
    \E k \in 1..(Len(s) - Len(sub) + 1) : SubSeq(s, k, k + Len(sub) - 1) = sub

\* str.split(delimiter) for a one-character delimiter
RECURSIVE SplitFrom(_, _, _, _)
SplitFrom(s, delim, start, k) ==
    IF k > Len(s) THEN << SubSeq(s, start, Len(s)) >>
    ELSE IF Ch(s, k) = delim
         THEN << SubSeq(s, start, k - 1) >> \o SplitFrom(s, delim, k + 1, k + 1)
         ELSE SplitFrom(s, delim, start, k + 1)

Split(s, delim) == SplitFrom(s, delim, 1, 1)

\* csv_list without its test for a blank value
csv_list_noblank(value) ==
    IF ~Contains(",", value) THEN << Strip(value) >>
    ELSE LET parts == Split(value, ",")
         IN  [k \in 1..Len(parts) |-> Strip(parts[k])]

\* util.csv_list(value, delimiter=",")
csv_list(value) ==
    IF Strip(value) = "" THEN << >>
    ELSE IF ~Contains(",", value) THEN << Strip(value) >>
    ELSE LET parts == Split(value, ",")
         IN  [k \in 1..Len(parts) |-> Strip(parts[k])]

\* ------------------------------------------------------------------------
\* Time (local time zone UTC: no offset, no daylight saving)
\* ------------------------------------------------------------------------
DaySecs == 24 * 3600

WeekSecs == 24 * 3600 * 7

\* time.localtime(when).tm_wday, Monday = 0 (1970-01-01 was a Thursday)
tm_wday(when) == ((when \div DaySecs) + 3) % 7

\* util.daybase(epoch): the beginning of the local day containing epoch
daybase(epoch) == epoch - (epoch % DaySecs)

IsLeap(y) == (y % 4 = 0 /\ y % 100 # 0) \/ y % 400 = 0

DaysInMonth(y, m) ==
    IF m = 2 THEN (IF IsLeap(y) THEN 29 ELSE 28)
    ELSE IF m \in {4, 6, 9, 11} THEN 30 ELSE 31

\* days from 1970-01-01 to the civil date y-m-d
DaysFromCivil(y, m, d) ==
    LET yy  == IF m <= 2 THEN y - 1 ELSE y
        era == yy \div 400
        yoe == yy - era * 400
        mp  == IF m > 2 THEN m - 3 ELSE m + 9
        doy == (153 * mp + 2) \div 5 + d - 1
        doe == yoe * 365 + yoe \div 4 - yoe \div 100 + doy
    IN  era * 146097 + doe - 719468

\* mktime giving noon of the day
mktime_noon(tm) == DaysFromCivil(tm.tm_year, tm.tm_mon, tm.tm_mday) * DaySecs + 12 * 3600

\* time.mktime() of midnight of a struct_time
mktime(tm) == DaysFromCivil(tm.tm_year, tm.tm_mon, tm.tm_mday) * DaySecs

\* the group (?P<m>1[0-2]|0[1-9]|[1-9]) of strptime's regex, taking n characters at p
MonthAt(s, p, n) ==
    IF n = 2
    THEN p + 1 <= Len(s)
         /\ \/ Ch(s, p) = "1" /\ Ch(s, p + 1) \in {"0", "1", "2"}
            \/ Ch(s, p) = "0" /\ Ch(s, p + 1) \in Digits \ {"0"}
    ELSE p <= Len(s) /\ Ch(s, p) \in Digits \ {"0"}

\* the group (?P<d>3[01]|[12]\d|0[1-9]|[1-9]| [1-9]), taking n characters at p
DayAt(s, p, n) ==
    IF n = 2
    THEN p + 1 <= Len(s)
         /\ \/ Ch(s, p) = "3" /\ Ch(s, p + 1) \in {"0", "1"}
            \/ Ch(s, p) \in {"1", "2"} /\ Ch(s, p + 1) \in Digits
            \/ Ch(s, p) = "0" /\ Ch(s, p + 1) \in Digits \ {"0"}
            \/ Ch(s, p) = " " /\ Ch(s, p + 1) \in Digits \ {"0"}
    ELSE p <= Len(s) /\ Ch(s, p) \in Digits \ {"0"}

\* the (month length, day length) pairs in the order the regex tries them
YmdSplits == << <<2, 2>>, <<2, 1>>, <<1, 2>>, <<1, 1>> >>

YmdSplitOk(s, k) ==
    MonthAt(s, 6, YmdSplits[k][1]) /\ DayAt(s, 6 + YmdSplits[k][1], YmdSplits[k][2])

\* what the handler of ValueError leaves in ymd_tm (python's False)
NoTm == [tm_year |-> 0, tm_mon |-> 0, tm_mday |-> 0]

\* time.strptime(spec, "%Y.%m%d"): a struct_time, or NoTm for ValueError
strptime_Ymd(s) ==
    IF ~(Len(s) >= 5 /\ (\A k \in 1..4 : IsDigit(s, k)) /\ Ch(s, 5) = ".")
    THEN NoTm
    ELSE IF ~(\E k \in 1..4 : YmdSplitOk(s, k)) THEN NoTm
    ELSE LET k  == CHOOSE j \in 1..4 : YmdSplitOk(s, j) /\ \A i \in 1..(j - 1) : ~YmdSplitOk(s, i)
             ml == YmdSplits[k][1]
             dl == YmdSplits[k][2]
             y  == IntOf(s, 1, 4)
             m  == IntOf(s, 6, 5 + ml)
             d  == IntOf(s, 5 + ml + (IF Ch(s, 6 + ml) = " " THEN 2 ELSE 1), 5 + ml + dl)
         IN  IF 5 + ml + dl # Len(s) THEN NoTm           \* unconverted data remains
             ELSE IF y < 1 \/ d > DaysInMonth(y, m) THEN NoTm  \* no such date
             ELSE [tm_year |-> y, tm_mon |-> m, tm_mday |-> d]

\* the last index of the run of digits that starts at p
RECURSIVE RunEnd(_, _)
RunEnd(s, p) == IF IsDigit(s, p + 1) THEN RunEnd(s, p + 1) ELSE p

\* re.findall("(\d+):(\d+)", spec) scanning from p: the list of (hours, minutes) pairs
RECURSIVE FindAllHM(_, _)
FindAllHM(s, p) ==
    IF p > Len(s) THEN << >>
    ELSE IF ~IsDigit(s, p) THEN FindAllHM(s, p + 1)
    ELSE LET e == RunEnd(s, p)
         IN  IF e + 2 <= Len(s) /\ Ch(s, e + 1) = ":" /\ IsDigit(s, e + 2)
             THEN LET f == RunEnd(s, e + 2)
                  IN  << << SubSeq(s, p, e), SubSeq(s, e + 2, f) >> >> \o FindAllHM(s, f + 1)
             ELSE FindAllHM(s, p + 1)

\* ------------------------------------------------------------------------
\* config.qt_parse
\* ------------------------------------------------------------------------
dow_s == " monday tuesday wednesday thursday friday saturday sunday"

\* dow_s.strip().split(); wday_d maps the k-th name to k - 1
WdayNames == << "monday", "tuesday", "wednesday", "thursday", "friday", "saturday", "sunday" >>

\* the python int() of a findall group
int(s) == IntOf(s, 1, Len(s))

IsWindow(r) == "iter" \in DOMAIN r

\* hm_list keeping the first two of several clock times
hm_list_first2(spec) ==
    LET hm_l == FindAllHM(spec, 1) IN IF Len(hm_l) < 2 THEN << >> ELSE SubSeq(hm_l, 1, 2)

\* hm_list turning down an hour of 24 or more and a minute of 60 or more
hm_list_ranged(spec) ==
    LET hm_l == FindAllHM(spec, 1)
    IN  IF Len(hm_l) # 2 THEN << >>
        ELSE IF \E k \in 1..2 : int(hm_l[k][1]) >= 24 \/ int(hm_l[k][2]) >= 60 THEN << >>
        ELSE hm_l

\* hm_l after the length test of line 642
hm_list(spec) ==
    LET hm_l == FindAllHM(spec, 1) IN IF Len(hm_l) # 2 THEN << >> ELSE hm_l

\* WdayMatches taking the names that begin with the token
WdayMatches_prefix(spec) ==
    LET low == Lower(spec) IN {k \in 1..7 : SubSeq(WdayNames[k], 1, Len(low)) = low}

\* the names x of wday_d with spec.lower() in x (line 647)
WdayMatches(spec) == LET low == Lower(spec) IN {k \in 1..7 : Contains(low, WdayNames[k])}

\* qt_parse giving a weekday window a period of seven seconds
qt_parse_week7(spec) ==
    LET ymd_tm == strptime_Ymd(spec)
        hm_l   == hm_list(spec)
        wd     == WdayMatches(spec)
    IN  IF Contains(" " \o Lower(spec), dow_s)
        THEN IF Cardinality(wd) # 1
             THEN [exc |-> "ValueError", msg |-> "unpack"]
             ELSE [spec |-> spec, lo |-> 0, hi |-> 24 * 3600 - 1,
                   base |-> (CHOOSE k \in wd : TRUE) - 1,
                   iter |-> 7]
        ELSE IF ymd_tm # NoTm
        THEN [spec |-> spec, lo |-> 0, hi |-> 24 * 3600 - 1,
              base |-> mktime(ymd_tm), iter |-> 0]
        ELSE IF hm_l # << >>
        THEN [spec |-> spec,
              lo |-> 60 * (60 * int(hm_l[1][1]) + int(hm_l[1][2])),
              hi |-> 60 * (60 * int(hm_l[2][1]) + int(hm_l[2][2])),
              base |-> -1, iter |-> 24 * 3600]
        ELSE [exc |-> "StandardError", msg |-> "qt_parse fails on '" \o spec \o "'"]

\* qt_parse taking for weekday text what dow_s holds anywhere
qt_parse_anywhere(spec) ==
    LET ymd_tm == strptime_Ymd(spec)
        hm_l   == hm_list(spec)
        wd     == WdayMatches(spec)
    IN  IF Contains(Lower(spec), dow_s)
        THEN IF Cardinality(wd) # 1
             THEN [exc |-> "ValueError", msg |-> "unpack"]
             ELSE [spec |-> spec, lo |-> 0, hi |-> 24 * 3600 - 1,
                   base |-> (CHOOSE k \in wd : TRUE) - 1,
                   iter |-> 24 * 3600 * 7]
        ELSE IF ymd_tm # NoTm
        THEN [spec |-> spec, lo |-> 0, hi |-> 24 * 3600 - 1,
              base |-> mktime(ymd_tm), iter |-> 0]
        ELSE IF hm_l # << >>
        THEN [spec |-> spec,
              lo |-> 60 * (60 * int(hm_l[1][1]) + int(hm_l[1][2])),
              hi |-> 60 * (60 * int(hm_l[2][1]) + int(hm_l[2][2])),
              base |-> -1, iter |-> 24 * 3600]
        ELSE [exc |-> "StandardError", msg |-> "qt_parse fails on '" \o spec \o "'"]

qt_parse(spec) ==
    LET ymd_tm == strptime_Ymd(spec)
        hm_l   == hm_list(spec)
        wd     == WdayMatches(spec)
    IN  IF Contains(" " \o Lower(spec), dow_s)
        THEN \* we have a week day; [wd] = [...] raises unless one name matches
             IF Cardinality(wd) # 1
             THEN [exc |-> "ValueError", msg |-> "unpack"]
             ELSE [spec |-> spec, lo |-> 0, hi |-> 24 * 3600 - 1,
                   base |-> (CHOOSE k \in wd : TRUE) - 1,
                   iter |-> 24 * 3600 * 7]
        ELSE IF ymd_tm # NoTm
        THEN \* we have a date
             [spec |-> spec, lo |-> 0, hi |-> 24 * 3600 - 1,
              base |-> mktime(ymd_tm), iter |-> 0]
        ELSE IF hm_l # << >>
        THEN \* we have a time range
             [spec |-> spec,
              lo |-> 60 * (60 * int(hm_l[1][1]) + int(hm_l[1][2])),
              hi |-> 60 * (60 * int(hm_l[2][1]) + int(hm_l[2][2])),
              base |-> -1, iter |-> 24 * 3600]
        ELSE [exc |-> "StandardError", msg |-> "qt_parse fails on '" \o spec \o "'"]

\* ------------------------------------------------------------------------
\* config.quiet_time: the test of one entry x of self._qt_list against when
\* ------------------------------------------------------------------------
\* date_hit with the last second of the day left out
date_hit_open(x, when) ==
    LET low  == x.base + x.lo
        high == x.base + x.hi
    IN  low <= when /\ when < high

\* "it's a date" (lines 699-704)
date_hit(x, when) ==
    LET low  == x.base + x.lo
        high == x.base + x.hi
    IN  low <= when /\ when <= high

\* range_hit without the early-morning part of an upside-down range
range_hit_nowrap(x, when) ==
    LET db   == daybase(when)
        low  == db + x.lo
        high == db + x.hi
        dz   == db + 24 * 3600
    IN  IF low < high THEN low <= when /\ when <= high
        ELSE IF high < low THEN low <= when /\ when <= dz
        ELSE when = low

\* range_hit with the upper end of a right-side-up range left out
range_hit_open(x, when) ==
    LET db   == daybase(when)
        low  == db + x.lo
        high == db + x.hi
        dz   == db + 24 * 3600
    IN  IF low < high THEN low <= when /\ when < high
        ELSE IF high < low THEN (db <= when /\ when <= high) \/ (low <= when /\ when <= dz)
        ELSE when = low

\* range_hit taking equal times for an empty interval
range_hit_empty(x, when) ==
    LET db   == daybase(when)
        low  == db + x.lo
        high == db + x.hi
        dz   == db + 24 * 3600
    IN  IF low < high THEN low <= when /\ when <= high
        ELSE IF high < low THEN (db <= when /\ when <= high) \/ (low <= when /\ when <= dz)
        ELSE FALSE

\* range_hit taking an upside-down range for the interval between its times
range_hit_unordered(x, when) ==
    LET db   == daybase(when)
        low  == db + x.lo
        high == db + x.hi
    IN  IF low < high THEN low <= when /\ when <= high
        ELSE IF high < low THEN high <= when /\ when <= low
        ELSE when = low

\* "it's a time range" (lines 706-729)
range_hit(x, when) ==
    LET db   == daybase(when)
        low  == db + x.lo
        high == db + x.hi
        dz   == db + 24 * 3600
    IN  IF low < high THEN low <= when /\ when <= high
        ELSE IF high < low THEN (db <= when /\ when <= high) \/ (low <= when /\ when <= dz)
        ELSE when = low

\* wday_hit counting the days of the week from Sunday = 0
wday_hit_sunday(x, when) == (tm_wday(when) + 1) % 7 = x.base

\* wday_hit on the day of the week of every other week only
wday_hit_fortnight(x, when) == tm_wday(when) = x.base /\ (when \div WeekSecs) % 2 = 0

\* "it's a weekday" (lines 731-735)
wday_hit(x, when) == tm_wday(when) = x.base

\* the three kinds the loop knows; anything else raises "Hell has frozen over"
KnownIter(x) == x.iter \in {0, 24 * 3600, 24 * 3600 * 7}

qt_hit(x, when) ==
    IF x.iter = 0 THEN date_hit(x, when)
    ELSE IF x.iter = 24 * 3600 THEN range_hit(x, when)
    ELSE wday_hit(x, when)

\* set_rval keeping only the answer of the last entry
set_rval_last(rval, hit) == hit

\* rval after one entry: "if <hit>: rval = True"
set_rval(rval, hit) == rval \/ hit

\* the entry makes quiet_time call log(): a range whose two times are equal
LogsNote(x) == x.iter = 24 * 3600 /\ x.lo = x.hi

\* ------------------------------------------------------------------------
\* The config objects of the model and the instants they are asked about
\* ------------------------------------------------------------------------
\* tokens that qt_parse accepts: right-side-up, upside-down and empty ranges,
\* a date, two weekdays
Tok == << "14:00-19:00", "19:00-03:00", "19:17-19:17", "2014.0401", "Wednes", "sat" >>

NTok == Len(Tok)

\* three tokens of different kinds (clock range, date, weekday), by index in Tok
Triples == { <<1, 4, 5>>, <<2, 4, 6>>, <<3, 4, 5>>, <<5, 4, 1>>, <<4, 6, 2>> }

\* A family of fresh configs: object 1 holds the whole text, objects 2.. hold
\* its tokens one by one.
PairFams ==
    {[text |-> Tok[a] \o "," \o Tok[b], parts |-> << Tok[a], Tok[b] >>] : a, b \in 1..NTok}

TripleFams ==
    {[text |-> Tok[t[1]] \o "," \o Tok[t[2]] \o "," \o Tok[t[3]],
      parts |-> << Tok[t[1]], Tok[t[2]], Tok[t[3]] >>] : t \in Triples}

OtherFams ==
    { [text |-> "", parts |-> << >>],
      [text |-> "   ", parts |-> << >>],
      [text |-> " Wednes ", parts |-> << "Wednes" >>],
      [text |-> "2014.0401, 17:00 - 23:00", parts |-> << "2014.0401", "17:00 - 23:00" >>],
      [text |-> "sat,bogus", parts |-> << "sat", "bogus" >>],
      [text |-> "bogus,sat", parts |-> << "bogus", "sat" >>],
      [text |-> "14:00-19:00,tu,sat", parts |-> << "14:00-19:00", "tu", "sat" >>],
      [text |-> "17:00-23:00,2014.0230", parts |-> << "17:00-23:00", "2014.0230" >>] }

Families == PairFams \cup TripleFams \cup OtherFams

MaxParts == 3

Objs == 1..(1 + MaxParts)

\* the config of object o of family f as config.dictor() builds it; an object
\* beyond the family's tokens has no quiet_time option, the last no crawler section
FreshCfg(f, o) ==
    IF o = 1 THEN [section |-> TRUE, has |-> TRUE, value |-> f.text]
    ELSE IF o - 1 <= Len(f.parts) THEN [section |-> TRUE, has |-> TRUE, value |-> f.parts[o - 1]]
    ELSE IF o < 1 + MaxParts THEN [section |-> TRUE, has |-> FALSE, value |-> ""]
    ELSE [section |-> FALSE, has |-> FALSE, value |-> ""]

\* the instants: the days from Monday 2014.0331 on, and the same days a year later
MaxDay == 9

Day0 == DaysFromCivil(2014, 3, 31)

Days == {Day0 + d : d \in 0..MaxDay} \cup {Day0 + 365 + d : d \in 0..1}

\* seconds into the day: midnight, noon, and one second around every bound of Tok
Offsets ==
    {0, 1, 12 * 3600, 24 * 3600 - 1}
    \cup {h * 3600 + d : h \in {3, 14, 19}, d \in {-1, 0, 1}}
    \cup {19 * 3600 + 17 * 60 + d : d \in {-1, 0, 1}}

Whens == {day * (24 * 3600) + off : day \in Days, off \in Offsets}

Threads == {1, 2}

VARIABLES
    cfg,      \* cfg[o]: the crawler section and its quiet_time option
    qt,       \* qt[o]: the attribute self._qt_list (has: it exists)
    logger,   \* hasattr(log, '_logger')
    logfile,  \* the time specs the log file holds a note about
    now,      \* the clock reading the fresh configs are asked about
    turn,     \* the next fresh config to ask about now
    res,      \* res[o]: how the last quiet_time call on o ended, if one has
              \* ended since the clock moved or o's options changed
    pc, self, when, rval, it, toks   \* per thread: a quiet_time call in progress

VARIABLES
    loggen,   \* the number of loggers new_logger has made
    logpath,  \* the file of the cached logger's handler, "" without a logger
    logcall   \* the arguments of the last call of log() and what it returned

logvars == << logger, logfile, loggen, logpath, logcall >>

VARIABLES
    dbi,      \* dbi[d]: the DBI object d and its backend object
    dbcall    \* how the last call on a DBI object ended

dbvars == << dbi, dbcall >>

VARIABLES
    conf,     \* get_config._config: the cached config object, if there is one
    confgen,  \* the number of config objects cached so far
    confcall  \* the arguments of the last call of add_config and how it ended

confvars == << conf, confgen, confcall >>

VARIABLES
    ctx       \* the 'with db_context(...)' block: where control is, its DBI object

VARIABLES
    backend,   \* the class of the backend object that retry runs on
    sleeptime, \* its attribute sleeptime in tenths of a second, 0: no such attribute
    nretry,    \* the transient errors it has slept on since it was made
    slept,     \* the length of its last sleep, in tenths of a second
    elapsed,   \* time.time() - start, in tenths of a second
    rt         \* the call of retry: its position, locals and how it ended

retryvars == << backend, sleeptime, nretry, slept, elapsed, rt >>

VARIABLES
    rd         \* a config object and the call of read() on it

\* the state outside the with block
others == << retryvars, rd >>

\* the state outside retry
notretry ==
    << cfg, qt, logvars, now, turn, res, pc, self, when, rval, it, toks, dbvars, confvars, ctx, rd >>

\* the state outside config.read
notread ==
    << cfg, qt, logvars, now, turn, res, pc, self, when, rval, it, toks, dbvars, confvars, ctx,
       retryvars >>

\* the state of the blocks and loops around the DBI calls
rest == << ctx, others >>

\* the state that quiet_time never touches
apart == << dbvars, confvars, rest >>

vars == << cfg, qt, logvars, now, turn, res, pc, self, when, rval, it, toks, apart >>

NoRes == [done |-> FALSE, when |-> 0, val |-> FALSE, raised |-> FALSE, exc |-> "", msg |-> ""]

\* ------------------------------------------------------------------------
\* hx.cfg.log and new_logger
\* ------------------------------------------------------------------------
NoLogCall == [args |-> << >>, close |-> FALSE, logpath |-> "", cfg |-> FALSE, ret |-> FALSE]

\* the line of dashes that new_logger writes to a log it opens (line 256)
Dashes == "-----"

\* new_logger's final_logpath: logpath if set, else the cfg's, else the
\* default (CRAWL_LOG is not set)
final_logpath(lp, c) == IF lp # "" THEN lp ELSE IF c THEN "cfg.log" ELSE "default.log"

\* DoLog reopening the log when a logpath comes with a cached logger
DoLog_reopen(args, close, lp, c) ==
    LET kept   == logger /\ ~close /\ lp = ""
        early  == ~kept /\ (lp # "" \/ c)
        late   == ~kept /\ ~early /\ Len(args) > 0
        made   == early \/ late
    IN  /\ logger' = (kept \/ made)
        /\ loggen' = IF made THEN loggen + 1 ELSE loggen
        /\ logpath' = IF made THEN final_logpath(lp, c) ELSE IF kept THEN logpath ELSE ""
        /\ logfile' = logfile \cup (IF made THEN {Dashes} ELSE {})
                              \cup (IF Len(args) > 0 THEN {args[1]} ELSE {})
        /\ logcall' = [args |-> args, close |-> close, logpath |-> lp, cfg |-> c,
                       ret |-> (kept \/ made)]

\* log(*args, logpath=lp, cfg=c, close=close), lines 279-313: the cached
\* logger is closed if close is set, one is made if none is left and a
\* logpath or cfg is given or a message has to be written
DoLog(args, close, lp, c) ==
    LET kept   == logger /\ ~close
        early  == ~kept /\ (lp # "" \/ c)
        late   == ~kept /\ ~early /\ Len(args) > 0
        made   == early \/ late
    IN  /\ logger' = (kept \/ made)
        /\ loggen' = IF made THEN loggen + 1 ELSE loggen
        /\ logpath' = IF made THEN final_logpath(lp, c) ELSE IF kept THEN logpath ELSE ""
        /\ logfile' = logfile \cup (IF made THEN {Dashes} ELSE {})
                              \cup (IF Len(args) > 0 THEN {args[1]} ELSE {})
        /\ logcall' = [args |-> args, close |-> close, logpath |-> lp, cfg |-> c,
                       ret |-> (kept \/ made)]

\* the DBI objects of the model
DbObjs == {1, 2}

\* DBI.__init__: closed = False, a backend object with an open connection
NewDbi == [closed |-> FALSE, sqlite_closed |-> FALSE, ncalls |-> 0]

NoCall == [obj |-> 0, meth |-> "", out |-> "", val |-> ""]

\* ------------------------------------------------------------------------
\* The config singleton of add_config
\* ------------------------------------------------------------------------
\* the section names of the model, in sorted order, and the option names
Sections == << "alpha", "crawler" >>

SectionSet == {Sections[k] : k \in 1..Len(Sections)}

Options == {"x", "y"}

\* the mark of an option that a section does not hold
Absent == "<absent>"

NoOptions == [s \in SectionSet |-> [o \in Options |-> Absent]]

\* no cached config: get_config has no attribute _config
NoConf == [has |-> FALSE, id |-> 0, dflt |-> FALSE, file |-> "", secs |-> {}, opt |-> NoOptions]

NoConfCall ==
    [kind |-> "", arg |-> "", close |-> FALSE, soft |-> FALSE, out |-> "", exc |-> "", id |-> 0]

\* section s of the argument a names option o
Names(a, s, o) == s \in a.secs /\ a.opt[s][o] # Absent

\* the sections and options of c after those of a are set over them
SetOver(c, a, secs) ==
    [c EXCEPT !.secs = @ \cup secs,
              !.opt = [s \in SectionSet |-> [o \in Options |->
                          IF s \in secs /\ Names(a, s, o) THEN a.opt[s][o] ELSE c.opt[s][o]]]]

\* config.sum_dict(dct): a missing section is added, then the options are set
sum_dict(c, a) == SetOver(c, a, a.secs)

\* config.read(filename): the file is parsed into the object, its name kept
read(c, a) == [SetOver(c, a, a.secs) EXCEPT !.file = a.name]

\* the first section of a, in cfg.sections() order, that holds an option and
\* that c lacks: ConfigParser.set raises NoSectionError there; 0 if none
FirstMissing(c, a) ==
    LET miss == {k \in 1..Len(Sections) :
                    /\ Sections[k] \in a.secs /\ Sections[k] \notin c.secs
                    /\ \E o \in Options : Names(a, Sections[k], o)}
    IN  IF miss = {} THEN 0 ELSE CHOOSE k \in miss : \A j \in miss : k <= j

\* the loop of lines 71-73 as far as it gets
set_each(c, a) ==
    LET stop == FirstMissing(c, a)
    IN  SetOver(c, a, {Sections[k] : k \in {j \in 1..Len(Sections) :
                                               Sections[j] \in a.secs /\ (stop = 0 \/ j < stop)}})

\* no with block has been entered
NoCtx == [pc |-> "none", obj |-> 0, how |-> "", closeout |-> ""]

\* python's None as the value retry returns
None == 0

\* no call of retry has begun
NoRetry ==
    [pc |-> "idle", timeout |-> 0, done |-> FALSE, rval |-> None, err |-> "",
     pcalls |-> 0, fails |-> 0, caught |-> 0, hcalls |-> 0, out |-> "", exc |-> ""]

\* the names of config files: the file read, two it may include, one that
\* never exists
RootFile == "inclroot.cfg"

FileNames == {RootFile, "include1.cfg", "include2.cfg", "nosuch.cfg"}

\* the sections that hold an include option
IncSections == {"crawler", "newsect"}

\* a new config object: no include option, no attribute incl
NewRd ==
    [pc |-> "idle", has_incl |-> FALSE, inc |-> [s \in IncSections |-> ""],
     incl |-> [f \in FileNames |-> "absent"], pending |-> {}, unparsed |-> {},
     passed |-> [f \in FileNames |-> 0], warns |-> 0, out |-> ""]

InitApart ==
    /\ rd = NewRd
    /\ ctx = NoCtx
    /\ backend = "none"
    /\ sleeptime = 0
    /\ nretry = 0
    /\ slept = 0
    /\ elapsed = 0
    /\ rt = NoRetry
    /\ dbi = [d \in DbObjs |-> NewDbi]
    /\ dbcall = NoCall
    /\ conf = NoConf
    /\ confgen = 0
    /\ confcall = NoConfCall

\* fresh configs of one of the families fams, the clock at one of nows
InitWith(fams, nows) ==
    /\ InitApart
    /\ \E f \in fams : cfg = [o \in Objs |-> FreshCfg(f, o)]
    /\ qt = [o \in Objs |-> [has |-> FALSE, list |-> << >>]]
    /\ logger = FALSE
    /\ logfile = {}
    /\ loggen = 0
    /\ logpath = ""
    /\ logcall = NoLogCall
    /\ now \in nows
    /\ turn = 1
    /\ res = [o \in Objs |-> NoRes]
    /\ pc = [th \in Threads |-> "idle"]
    /\ self = [th \in Threads |-> 1]
    /\ when = [th \in Threads |-> 0]
    /\ rval = [th \in Threads |-> FALSE]
    /\ it = [th \in Threads |-> 1]
    /\ toks = [th \in Threads |-> << >>]

Init == InitWith(Families, Whens)

\* ConfigParser.has_option('crawler', 'quiet_time')
has_option(o) == cfg[o].section /\ cfg[o].has

\* ------------------------------------------------------------------------
\* config.quiet_time(when), one step at a time
\* ------------------------------------------------------------------------
\* the call is over: its local variables are gone
Exit(th) ==
    /\ pc' = [pc EXCEPT ![th] = "idle"]
    /\ self' = [self EXCEPT ![th] = 1]
    /\ when' = [when EXCEPT ![th] = 0]
    /\ rval' = [rval EXCEPT ![th] = FALSE]
    /\ it' = [it EXCEPT ![th] = 1]
    /\ toks' = [toks EXCEPT ![th] = << >>]

\* thread th calls o.quiet_time(t): rval = False (line 688)
Call(th, o, t) ==
    /\ pc[th] = "idle"
    /\ pc' = [pc EXCEPT ![th] = "try"]
    /\ self' = [self EXCEPT ![th] = o]
    /\ when' = [when EXCEPT ![th] = t]
    /\ rval' = [rval EXCEPT ![th] = FALSE]
    /\ it' = [it EXCEPT ![th] = 1]
    /\ toks' = [toks EXCEPT ![th] = << >>]
    /\ UNCHANGED << cfg, qt, logvars, now, res, apart >>

\* TryList running the build again when the list exists
TryList_rebuild(th) ==
    /\ pc[th] = "try"
    /\ pc' = [pc EXCEPT ![th] = IF qt[self[th]].has THEN "read" ELSE "init"]
    /\ UNCHANGED << cfg, qt, logvars, now, turn, res, self, when, rval, it, toks, apart >>

\* try: x = self._qt_list (lines 689-691)
TryList(th) ==
    /\ pc[th] = "try"
    /\ pc' = [pc EXCEPT ![th] = IF qt[self[th]].has THEN "loop" ELSE "init"]
    /\ UNCHANGED << cfg, qt, logvars, now, turn, res, self, when, rval, it, toks, apart >>

\* except AttributeError: self._qt_list = [] (line 692)
InitList(th) ==
    /\ pc[th] = "init"
    /\ qt' = [qt EXCEPT ![self[th]] = [has |-> TRUE, list |-> << >>]]
    /\ pc' = [pc EXCEPT ![th] = "read"]
    /\ UNCHANGED << cfg, logvars, now, turn, res, self, when, rval, it, toks, apart >>

\* if self.has_option(...): spec = self.get(...); util.csv_list(spec) (lines 693-695)
ReadSpec(th) ==
    /\ pc[th] = "read"
    /\ LET l == IF has_option(self[th]) THEN csv_list(cfg[self[th]].value) ELSE << >>
       IN  /\ toks' = [toks EXCEPT ![th] = l]
           /\ pc' = [pc EXCEPT ![th] = IF l = << >> THEN "loop" ELSE "parse"]
    /\ UNCHANGED << cfg, qt, logvars, now, turn, res, self, when, rval, it, apart >>

\* self._qt_list.append(self.qt_parse(ispec)) for the next ispec (line 696)
ParseNext(th) ==
    /\ pc[th] = "parse"
    /\ LET x == qt_parse(Head(toks[th]))
       IN  /\ IsWindow(x)
           /\ qt' = [qt EXCEPT ![self[th]].list = Append(@, x)]
    /\ toks' = [toks EXCEPT ![th] = Tail(@)]
    /\ pc' = [pc EXCEPT ![th] = IF Len(toks[th]) = 1 THEN "loop" ELSE "parse"]
    /\ UNCHANGED << cfg, logvars, now, turn, res, self, when, rval, it, apart >>

\* qt_parse raises: the exception leaves quiet_time (lines 647, 672)
ParseRaise(th) ==
    /\ pc[th] = "parse"
    /\ LET x == qt_parse(Head(toks[th]))
       IN  /\ ~IsWindow(x)
           /\ res' = [res EXCEPT ![self[th]] =
                         [done |-> TRUE, when |-> when[th], val |-> FALSE, raised |-> TRUE,
                          exc |-> x.exc, msg |-> x.msg]]
    /\ Exit(th)
    /\ UNCHANGED << cfg, qt, logvars, now, turn, apart >>

\* one turn of "for x in self._qt_list" (lines 698-739); an entry of another
\* kind would raise "Hell has frozen over" and is given no transition here
EvalNext(th) ==
    /\ pc[th] = "loop"
    /\ it[th] <= Len(qt[self[th]].list)
    /\ LET x == qt[self[th]].list[it[th]]
       IN  /\ KnownIter(x)
           /\ rval' = [rval EXCEPT ![th] = set_rval(@, qt_hit(x, when[th]))]
           /\ IF LogsNote(x) THEN DoLog(<< x.spec >>, FALSE, "", FALSE) ELSE UNCHANGED logvars
    /\ it' = [it EXCEPT ![th] = @ + 1]
    /\ UNCHANGED << cfg, qt, now, turn, res, pc, self, when, toks, apart >>

\* the list is exhausted: return rval (line 741)
Return(th) ==
    /\ pc[th] = "loop"
    /\ it[th] > Len(qt[self[th]].list)
    /\ res' = [res EXCEPT ![self[th]] =
                  [done |-> TRUE, when |-> when[th], val |-> rval[th], raised |-> FALSE,
                   exc |-> "", msg |-> ""]]
    /\ Exit(th)
    /\ UNCHANGED << cfg, qt, logvars, now, turn, apart >>

Step(th) ==
    \/ TryList(th)
    \/ InitList(th)
    \/ ReadSpec(th)
    \/ ParseNext(th)
    \/ ParseRaise(th)
    \/ EvalNext(th)
    \/ Return(th)

\* ------------------------------------------------------------------------
\* Spec: every config is fresh and keeps its text; one thread asks each of
\* them in turn about the instant now, then the clock moves
\* ------------------------------------------------------------------------
AskNext ==
    /\ turn \in Objs
    /\ Call(1, turn, now)
    /\ turn' = turn + 1

\* the clock moves on to the next instant of Whens
Later == {t \in Whens : t > now}

Tick ==
    /\ turn \notin Objs
    /\ pc[1] = "idle"
    /\ Later # {}
    /\ now' = CHOOSE t \in Later : \A u \in Later : t <= u
    /\ turn' = 1
    /\ res' = [o \in Objs |-> NoRes]
    /\ UNCHANGED << cfg, qt, logvars, pc, self, when, rval, it, toks, apart >>

Next == AskNext \/ Tick \/ Step(1)

Spec == Init /\ [][Next]_vars

\* ------------------------------------------------------------------------
\* SpecLife: one config object whose options change between its calls
\* ------------------------------------------------------------------------
\* the texts crawler.quiet_time takes, in the object and in the files read
LifeTexts == {"sat", "14:00-19:00", "", "bogus"}

LifeFams == {[text |-> v, parts |-> << >>] : v \in LifeTexts}

\* Saturday 2014.0405 and Monday 2014.0407, at noon and at 15:00
LifeWhens == {(Day0 + d) * (24 * 3600) + h * 3600 : d \in {5, 7}, h \in {12, 15}}

InitLife == InitWith(LifeFams, {Day0 * (24 * 3600)})

AskLife ==
    /\ \E t \in LifeWhens : Call(1, 1, t)
    /\ UNCHANGED turn

\* ConfigParser.set('crawler', 'quiet_time', v) on object 1, between two calls
SetOption(v) ==
    /\ pc[1] = "idle"
    /\ cfg[1].section
    /\ cfg' = [cfg EXCEPT ![1] = [section |-> TRUE, has |-> TRUE, value |-> v]]
    /\ res' = [res EXCEPT ![1] = NoRes]
    /\ UNCHANGED << qt, logvars, now, turn, pc, self, when, rval, it, toks, apart >>

\* what config.read() merges into the options: the crawler section of the
\* file and of the files it includes, with or without a quiet_time option
FileContents ==
    {[section |-> TRUE, has |-> TRUE, value |-> v] : v \in LifeTexts}
    \cup {[section |-> TRUE, has |-> FALSE, value |-> ""],
          [section |-> FALSE, has |-> FALSE, value |-> ""]}

\* config.read(filename) on object 1, between two calls: the options of the
\* file are set over those the object holds
ReadFile(f) ==
    /\ pc[1] = "idle"
    /\ cfg' = [cfg EXCEPT ![1] =
                  [section |-> cfg[1].section \/ f.section,
                   has     |-> cfg[1].has \/ f.has,
                   value   |-> IF f.has THEN f.value ELSE cfg[1].value]]
    /\ res' = [res EXCEPT ![1] = NoRes]
    /\ UNCHANGED << qt, logvars, now, turn, pc, self, when, rval, it, toks, apart >>

NextLife ==
    \/ AskLife
    \/ \E v \in LifeTexts : SetOption(v)
    \/ \E f \in FileContents : ReadFile(f)
    \/ Step(1)

SpecLife == InitLife /\ [][NextLife]_vars

\* ------------------------------------------------------------------------
\* SpecThreads: two threads call quiet_time on the same fresh config
\* ------------------------------------------------------------------------
ThreadFams ==
    { [text |-> "14:00-19:00,sat", parts |-> << >>],
      [text |-> "sat,2014.0401,19:00-03:00", parts |-> << >>],
      [text |-> "sat,bogus", parts |-> << >>] }

\* Saturday 2014.0405 at 15:00 and Monday 2014.0407 at noon
ThreadWhens == {(Day0 + 5) * (24 * 3600) + 15 * 3600, (Day0 + 7) * (24 * 3600) + 12 * 3600}

InitThreads == InitWith(ThreadFams, {Day0 * (24 * 3600)})

AskThread(th) ==
    /\ \E t \in ThreadWhens : Call(th, 1, t)
    /\ UNCHANGED turn

NextThreads == \E th \in Threads : AskThread(th) \/ Step(th)

SpecThreads == InitThreads /\ [][NextThreads]_vars

\* ------------------------------------------------------------------------
\* SpecDbi: calls on DBI objects (src/hx/dbi.py)
\* ------------------------------------------------------------------------
\* the variables of quiet_time and its configs
qtvars == << cfg, qt, logvars, now, turn, res, pc, self, when, rval, it, toks >>

\* the methods that DBI forwards to its backend object
DbMeths ==
    { "alter", "table_exists", "table_list", "create", "cursor", "delete",
      "describe", "drop", "insert", "select", "update" }

\* msg.db_closed
db_closed == "Cannot operate on a closed database"

\* calls a backend object takes in the model
MaxBackendCalls == 3

DbName(d) == IF d = 1 THEN "a.db" ELSE "b.db"

\* DbForward with cursor() handed to the backend whatever closed says
DbForward_cursor(d, meth) ==
    /\ meth \in DbMeths
    /\ IF dbi[d].closed /\ meth # "cursor"
       THEN /\ dbcall' = [obj |-> d, meth |-> meth, out |-> "raise", val |-> db_closed]
            /\ dbi' = dbi
       ELSE /\ dbi[d].ncalls < MaxBackendCalls
            /\ dbi' = [dbi EXCEPT ![d].ncalls = @ + 1]
            /\ \E ok \in BOOLEAN :
                   dbcall' = [obj |-> d, meth |-> meth,
                              out |-> IF ok THEN "return" ELSE "raise",
                              val |-> IF ok THEN "" ELSE "backend error"]
    /\ UNCHANGED << qtvars, confvars, rest >>

\* DBI.alter .. DBI.update: raise on a closed object, else the backend's
\* method, which returns or raises
DbForward(d, meth) ==
    /\ meth \in DbMeths
    /\ IF dbi[d].closed
       THEN /\ dbcall' = [obj |-> d, meth |-> meth, out |-> "raise", val |-> db_closed]
            /\ dbi' = dbi
       ELSE /\ dbi[d].ncalls < MaxBackendCalls
            /\ dbi' = [dbi EXCEPT ![d].ncalls = @ + 1]
            /\ \E ok \in BOOLEAN :
                   dbcall' = [obj |-> d, meth |-> meth,
                              out |-> IF ok THEN "return" ELSE "raise",
                              val |-> IF ok THEN "" ELSE "backend error"]
    /\ UNCHANGED << qtvars, confvars, rest >>

\* DBI.close with DBIsqlite.close: the backend raises when it was closed
\* before or when sqlite3 fails, and closed is set only after it returned
DoClose(d) ==
    IF dbi[d].closed
       THEN /\ dbcall' = [obj |-> d, meth |-> "close", out |-> "raise", val |-> db_closed]
            /\ dbi' = dbi
       ELSE /\ dbi[d].ncalls < MaxBackendCalls
            /\ IF dbi[d].sqlite_closed
               THEN /\ dbi' = [dbi EXCEPT ![d].ncalls = @ + 1]
                    /\ dbcall' = [obj |-> d, meth |-> "close", out |-> "raise",
                                  val |-> "closing a closed connection"]
               ELSE \E ok \in BOOLEAN :
                    /\ dbi' = [dbi EXCEPT ![d] = [closed |-> ok, sqlite_closed |-> TRUE,
                                                ncalls |-> @.ncalls + 1]]
                    /\ dbcall' = [obj |-> d, meth |-> "close",
                                  out |-> IF ok THEN "return" ELSE "raise",
                                  val |-> IF ok THEN "" ELSE "backend error"]

\* a call of close() on DBI object d
DbClose(d) ==
    /\ DoClose(d)
    /\ UNCHANGED << qtvars, confvars, rest >>

\* DBI.__repr__ over DBIsqlite.__repr__
DbRepr(d) ==
    /\ dbcall' = [obj |-> d, meth |-> "repr", out |-> "return",
                  val |-> (IF dbi[d].closed THEN "[closed]" ELSE "")
                          \o "DBIsqlite(dbname='" \o DbName(d) \o "')"]
    /\ dbi' = dbi
    /\ UNCHANGED << qtvars, confvars, rest >>

InitDbi == InitWith({[text |-> "", parts |-> << >>]}, {Day0 * (24 * 3600)})

NextDbi ==
    \E d \in DbObjs :
        \/ \E meth \in DbMeths : DbForward(d, meth)
        \/ DbClose(d)
        \/ DbRepr(d)

SpecDbi == InitDbi /\ [][NextDbi]_vars

\* ------------------------------------------------------------------------
\* SpecCtx: with db_context(...) as db: <body>  (dbi.py 1617-1625)
\* ------------------------------------------------------------------------
\* rval = DBI(**kw); yield rval: a new DBI object, bound to d, and the body begins
CtxEnter(d) ==
    /\ ctx.pc # "body"
    /\ ctx' = [pc |-> "body", obj |-> d, how |-> "", closeout |-> ""]
    /\ dbi' = [dbi EXCEPT ![d] = NewDbi]
    /\ dbcall' = NoCall
    /\ UNCHANGED << qtvars, confvars, others >>

\* the body calls a method of its DBI object, the last backend call being
\* left for the close at the end
CtxBody(meth) ==
    /\ ctx.pc = "body"
    /\ dbi[ctx.obj].ncalls < MaxBackendCalls - 1
    /\ IF meth = "close" THEN DbClose(ctx.obj) ELSE DbForward(ctx.obj, meth)

\* the body ends normally: the generator goes on after the yield and calls
\* rval.close(), whose exception, if any, leaves the with statement
CtxExit ==
    /\ ctx.pc = "body"
    /\ DoClose(ctx.obj)
    /\ ctx' = [ctx EXCEPT !.pc = "left", !.how = "normal", !.closeout = dbcall'.out]
    /\ UNCHANGED << qtvars, confvars, others >>

\* the body raises: the exception is thrown into the generator at the yield,
\* which no try statement surrounds, and leaves the with statement
CtxRaise ==
    /\ ctx.pc = "body"
    /\ ctx' = [ctx EXCEPT !.pc = "left", !.how = "raised"]
    /\ UNCHANGED << qtvars, confvars, dbvars, others >>

InitCtx == InitWith({[text |-> "", parts |-> << >>]}, {Day0 * (24 * 3600)})

NextCtx ==
    \/ \E d \in DbObjs : CtxEnter(d)
    \/ \E meth \in {"select", "insert", "close"} : CtxBody(meth)
    \/ CtxExit
    \/ CtxRaise

SpecCtx == InitCtx /\ [][NextCtx]_vars

\* ------------------------------------------------------------------------
\* SpecRetry: DBI_abstract.retry with the err_handler of DBImysql and DBIdb2
\* (dbi.py 59-78, 857-871, 1324-1340).  Times are tenths of a second.
\* ------------------------------------------------------------------------
\* the values of self.timeout
Timeouts == {-10, 0, 5, 300}

\* how long a call of the payload takes
PayloadTimes == {0, 2}

\* how a call of the payload ends: it returns, or raises an exception of the
\* class passed to retry (a transient error, a programming error, another
\* error, an error whose args do not fit the handler's format), or raises an
\* exception of another class
PayloadEnds == {"return", "transient", "programming", "fatal", "malformed", "foreign"}

\* transient errors one backend object sleeps on in the model
MaxRetries == 13

\* the longest sleep of the backend: 10.0 seconds, or 60.0 for DBIdb2
SleepCap(b) == IF b = "db2" THEN 600 ELSE 100

Min(a, b) == IF a < b THEN a ELSE b

RECURSIVE Pow2(_)
Pow2(n) == IF n = 0 THEN 1 ELSE 2 * Pow2(n - 1)

\* a backend object is made: it has no attribute sleeptime
NewBackend(b) ==
    /\ rt.pc = "idle"
    /\ backend' = b
    /\ sleeptime' = 0
    /\ nretry' = 0
    /\ slept' = 0
    /\ elapsed' = 0
    /\ rt' = NoRetry
    /\ UNCHANGED notretry

\* retry(exception, payload) is called: rval = None, done = False, start = time.time()
RetryBegin(t) ==
    /\ rt.pc = "idle"
    /\ backend # "none"
    /\ nretry < MaxRetries
    /\ rt' = [NoRetry EXCEPT !.pc = "test", !.timeout = t]
    /\ elapsed' = 0
    /\ UNCHANGED << backend, sleeptime, nretry, slept >>
    /\ UNCHANGED notretry

\* LoopAgain going round until the payload has returned, whatever the time
LoopAgain_notimeout(r, e) == ~r.done

\* LoopAgain going round until the time is up, whatever the payload did
LoopAgain_nodone(r, e) == e < r.timeout

\* while not done and time.time() - start < self.timeout (line 72)
LoopAgain(r, e) == ~r.done /\ e < r.timeout

\* the test of the while loop, and "return rval" when it fails
RetryTest ==
    /\ rt.pc = "test"
    /\ rt' = IF LoopAgain(rt, elapsed)
             THEN [rt EXCEPT !.pc = "payload"]
             ELSE [rt EXCEPT !.pc = "idle", !.out = "return"]
    /\ UNCHANGED << backend, sleeptime, nretry, slept, elapsed >>
    /\ UNCHANGED notretry

\* except exception as e (line 76): the exception is of the class passed
Caught(how) == how \in {"transient", "programming", "fatal", "malformed"}

\* rval = payload(*args, **kwargs); done = True, or the except clause, or
\* an exception of another class leaving retry
RetryPayload(how, d) ==
    /\ rt.pc = "payload"
    /\ elapsed' = elapsed + d
    /\ rt' = IF how = "return"
             THEN [rt EXCEPT !.pc = "test", !.pcalls = @ + 1, !.rval = rt.pcalls + 1,
                             !.done = TRUE]
             ELSE IF Caught(how)
             THEN [rt EXCEPT !.pc = "handler", !.pcalls = @ + 1, !.fails = @ + 1,
                             !.caught = @ + 1, !.err = how]
             ELSE [rt EXCEPT !.pc = "idle", !.pcalls = @ + 1, !.fails = @ + 1,
                             !.out = "raise", !.exc = "foreign"]
    /\ UNCHANGED << backend, sleeptime, nretry, slept >>
    /\ UNCHANGED notretry

\* NextSleep beginning again at 0.1 when the attribute is at its cap
NextSleep_reset(b, s) == IF 2 * s > SleepCap(b) THEN 1 ELSE 2 * s

\* self.sleeptime = min(2*self.sleeptime, 10.0)  (60.0 for DBIdb2)
NextSleep(b, s) == Min(2 * s, SleepCap(b))

\* self.err_handler(e): a transient error is slept on, any other raises
\* DBIerror, or TypeError from the format of the message
ErrHandler ==
    /\ rt.pc = "handler"
    /\ IF rt.err = "transient"
       THEN LET s == IF sleeptime = 0 THEN 1 ELSE sleeptime
            IN  /\ slept' = s
                /\ elapsed' = elapsed + s
                /\ sleeptime' = NextSleep(backend, s)
                /\ nretry' = nretry + 1
                /\ rt' = [rt EXCEPT !.pc = "test", !.hcalls = @ + 1, !.err = ""]
       ELSE /\ rt' = [rt EXCEPT !.pc = "idle", !.hcalls = @ + 1, !.err = "", !.out = "raise",
                                !.exc = IF rt.err = "malformed" /\ backend = "mysql"
                                        THEN "TypeError" ELSE "DBIerror"]
            /\ UNCHANGED << sleeptime, nretry, slept, elapsed >>
    /\ UNCHANGED backend
    /\ UNCHANGED notretry

InitRetry == InitWith({[text |-> "", parts |-> << >>]}, {Day0 * (24 * 3600)})

NextRetry ==
    \/ \E b \in {"mysql", "db2"} : NewBackend(b)
    \/ \E t \in Timeouts : RetryBegin(t)
    \/ RetryTest
    \/ \E how \in PayloadEnds, d \in PayloadTimes : RetryPayload(how, d)
    \/ ErrHandler

SpecRetry == InitRetry /\ [][NextRetry]_vars

\* ------------------------------------------------------------------------
\* SpecRead: config.read(filename) and its include files (cfg.py 744-791)
\* ------------------------------------------------------------------------
\* what a file holds: the include option of each section, "" for none
FileTexts ==
    {[crawler |-> a, newsect |-> b] :
        a \in {""} \cup FileNames, b \in {"", "include2.cfg", "nosuch.cfg"}}

\* the include options after the parser has read a file over them
ReadOver(inc, text) == [s \in IncSections |-> IF text[s] # "" THEN text[s] ELSE inc[s]]

\* update_include_list, lines 781-789: the dict incl after every include
\* value not yet in it is entered with False
update_include_list(incl, inc) ==
    [f \in FileNames |->
        IF incl[f] = "absent" /\ (\E s \in IncSections : inc[s] = f) THEN "false" ELSE incl[f]]

\* [x for x in self.incl if not self.incl[x]]
Pending(incl) == {f \in FileNames : incl[f] = "false"}

\* Marked leaving a file that could not be read to be tried again
Marked_parsed(pending, parsed) == parsed

\* for fname in pending: self.incl[fname] = True (lines 756-757)
Marked(pending, parsed) == pending

\* read(filename) up to the loop, on a new config object (fresh) or on the
\* one read before: readfp(open(filename)) raises IOError for a missing
\* file, else the file is parsed and the pending list made
ReadBegin(fresh, exists, text) ==
    /\ rd.pc # "loop"
    /\ IF ~exists
       THEN rd' = [(IF fresh THEN NewRd ELSE rd) EXCEPT
                      !.pc = "done", !.out = "IOError", !.warns = 0,
                      !.pending = {}, !.unparsed = {}]
       ELSE LET o    == IF fresh THEN NewRd ELSE rd
                inc  == ReadOver(o.inc, text)
                incl == update_include_list(o.incl, inc)
            IN  rd' = [o EXCEPT !.pc = "loop", !.has_incl = TRUE, !.inc = inc, !.incl = incl,
                                 !.pending = Pending(incl), !.unparsed = {}, !.warns = 0,
                                 !.out = ""]
    /\ UNCHANGED notread

\* one turn of "while pending != []": the parser is given the pending names
\* and reads those that can be read, in the order of the list; the names are
\* marked, a warning is given for those not read, the pending list is made anew
ReadRound ==
    /\ rd.pc = "loop"
    /\ rd.pending # {}
    /\ \E parsed \in SUBSET (rd.pending \ {"nosuch.cfg"}) :
       \E text \in [parsed -> FileTexts] :
       \E last \in [IncSections -> parsed \cup {""}] :
          /\ \A s \in IncSections :
                 IF \E f \in parsed : text[f][s] # ""
                 THEN last[s] # "" /\ text[last[s]][s] # ""
                 ELSE last[s] = ""
          /\ LET inc  == [s \in IncSections |->
                             IF last[s] = "" THEN rd.inc[s] ELSE text[last[s]][s]]
                 mk   == Marked(rd.pending, parsed)
                 incl == update_include_list(
                             [f \in FileNames |-> IF f \in mk THEN "true" ELSE rd.incl[f]], inc)
                 unparsed == rd.pending \ parsed
             IN  rd' = [rd EXCEPT !.inc = inc, !.incl = incl, !.pending = Pending(incl),
                                  !.unparsed = unparsed,
                                  !.passed = [f \in FileNames |->
                                                 IF f \in rd.pending THEN @[f] + 1 ELSE @[f]],
                                  !.warns = IF unparsed # {} THEN @ + 1 ELSE @]
    /\ UNCHANGED notread

\* the loop is over: the file name is set in the meta section, read returns
ReadEnd ==
    /\ rd.pc = "loop"
    /\ rd.pending = {}
    /\ rd' = [rd EXCEPT !.pc = "done", !.out = "return"]
    /\ UNCHANGED notread

InitRead == InitWith({[text |-> "", parts |-> << >>]}, {Day0 * (24 * 3600)})

NextRead ==
    \/ \E fresh \in BOOLEAN, exists \in BOOLEAN, text \in FileTexts :
          ReadBegin(fresh, exists, text)
    \/ ReadRound
    \/ ReadEnd

\* a call of read that has begun goes on
SpecRead == InitRead /\ [][NextRead]_vars /\ WF_vars(ReadRound) /\ WF_vars(ReadEnd)

\* ------------------------------------------------------------------------
\* SpecLog: calls of hx.cfg.log
\* ------------------------------------------------------------------------
LogMsgs == {"one", "two"}

LogPaths == {"", "a.log", "b.log"}

\* loggers made in the model
MaxLoggers == 3

\* a call of log() with or without a message, logpath, cfg and close
Log(args, close, lp, c) ==
    /\ loggen < MaxLoggers
    /\ DoLog(args, close, lp, c)
    /\ UNCHANGED << cfg, qt, now, turn, res, pc, self, when, rval, it, toks, apart >>

InitLog == InitWith({[text |-> "", parts |-> << >>]}, {Day0 * (24 * 3600)})

NextLog ==
    \E args \in {<< >>} \cup {<< m >> : m \in LogMsgs}, close \in BOOLEAN,
       lp \in LogPaths, c \in BOOLEAN : Log(args, close, lp, c)

SpecLog == InitLog /\ [][NextLog]_vars

\* ------------------------------------------------------------------------
\* SpecCfg: calls of add_config
\* ------------------------------------------------------------------------
\* what a file, a config object or a dict passed to add_config holds
ArgData ==
    { [name |-> "a1", secs |-> {"crawler"},
       opt |-> [NoOptions EXCEPT !["crawler"]["x"] = "1"]],
      [name |-> "a2", secs |-> {"crawler"},
       opt |-> [NoOptions EXCEPT !["crawler"]["x"] = "2", !["crawler"]["y"] = "2"]],
      [name |-> "a3", secs |-> {"alpha"},
       opt |-> [NoOptions EXCEPT !["alpha"]["x"] = "1"]],
      [name |-> "a4", secs |-> {"alpha", "crawler"},
       opt |-> [NoOptions EXCEPT !["alpha"]["y"] = "2", !["crawler"]["y"] = "1"]] }

\* config objects cached in the model
MaxConfigs == 3

\* a new config object with the sections and options of a; dflt: made by defaults()
NewConf(a, dflt, file) ==
    [has |-> TRUE, id |-> confgen + 1, dflt |-> dflt, file |-> file, secs |-> a.secs, opt |-> a.opt]

\* add_config(filename | cfg | dct, close), lines 58-105. kind says which
\* argument is passed ("none": none of them), a what it holds; found: the
\* default file exists, when the call comes to look for it
AddConfig(kind, a, close, found) ==
    LET c1   == IF close THEN NoConf ELSE conf
        call == [kind |-> kind, arg |-> IF kind = "none" THEN "" ELSE a.name, close |-> close,
                 soft |-> FALSE, out |-> "", exc |-> "", id |-> 0]
        fresh == NewConf([secs |-> {}, opt |-> NoOptions], TRUE, "")
    IN  /\ confgen < MaxConfigs
        /\ IF close /\ kind = "none"
           THEN /\ conf' = NoConf
                /\ confgen' = confgen
                /\ confcall' = [call EXCEPT !.out = "none"]
           ELSE IF kind = "filename"
           THEN /\ conf' = read(IF c1.has THEN c1 ELSE fresh, a)
                /\ confgen' = IF c1.has THEN confgen ELSE confgen + 1
                /\ confcall' = [call EXCEPT !.out = "return", !.id = conf'.id]
           ELSE IF kind = "cfg"
           THEN IF c1.has
                THEN /\ conf' = set_each(c1, a)
                     /\ confgen' = confgen
                     /\ confcall' = IF FirstMissing(c1, a) = 0
                                    THEN [call EXCEPT !.out = "return", !.id = c1.id]
                                    ELSE [call EXCEPT !.out = "raise", !.exc = "NoSectionError"]
                ELSE /\ conf' = NewConf(a, FALSE, "")
                     /\ confgen' = confgen + 1
                     /\ confcall' = [call EXCEPT !.out = "return", !.id = conf'.id]
           ELSE IF kind = "dct"
           THEN /\ conf' = IF c1.has THEN sum_dict(c1, a) ELSE NewConf(a, FALSE, "")
                /\ confgen' = IF c1.has THEN confgen ELSE confgen + 1
                /\ confcall' = [call EXCEPT !.out = "return", !.id = conf'.id]
           ELSE IF c1.has
           THEN /\ conf' = conf
                /\ confgen' = confgen
                /\ confcall' = [call EXCEPT !.out = "return", !.id = conf.id]
           ELSE IF found
           THEN /\ conf' = read(fresh, [a EXCEPT !.name = "crawl.cfg"])
                /\ confgen' = confgen + 1
                /\ confcall' = [call EXCEPT !.out = "return", !.id = conf'.id]
           ELSE /\ conf' = c1
                /\ confgen' = confgen
                /\ confcall' = [call EXCEPT !.out = "raise", !.exc = "SystemExit"]
        /\ UNCHANGED << qtvars, dbvars, rest >>

\* the names get_config is called with
CfNames == {"", "other.cfg"}

\* how get_config finds the file it comes to look for
FileStates == {"ok", "missing", "unreadable"}

\* CachedHit missing the cache when a file name is passed
CachedHit_noname(c1, cfname) == c1.has /\ cfname = ""

\* try: rval = get_config._config (lines 140-141) finds the cached object
CachedHit(c1, cfname) == c1.has

\* get_config(cfname, reset, soft), lines 134-169; a: what the file holds,
\* file: how the file is found, when the call comes to look for it
GetConfig(cfname, reset, soft, a, file) ==
    LET c1   == IF reset THEN NoConf ELSE conf
        call == [kind |-> "get_config", arg |-> cfname, close |-> reset, soft |-> soft,
                 out |-> "", exc |-> "", id |-> 0]
        name == IF cfname = "" THEN "crawl.cfg" ELSE cfname
        fresh == NewConf([secs |-> {}, opt |-> NoOptions], TRUE, "")
    IN  /\ confgen < MaxConfigs
        /\ IF CachedHit(c1, cfname)
           THEN /\ conf' = c1
                /\ confgen' = confgen
                /\ confcall' = [call EXCEPT !.out = "return", !.id = c1.id]
           ELSE IF soft
           THEN /\ conf' = NoConf
                /\ confgen' = confgen
                /\ confcall' = [call EXCEPT !.out = "none"]
           ELSE IF file = "missing"
           THEN /\ conf' = NoConf
                /\ confgen' = confgen
                /\ confcall' = [call EXCEPT !.out = "raise", !.exc = "SystemExit"]
           ELSE IF file = "unreadable"
           THEN /\ conf' = NoConf
                /\ confgen' = confgen
                /\ confcall' = [call EXCEPT !.out = "raise", !.exc = "StandardError"]
           ELSE IF "crawler" \notin a.secs
           THEN \* rval.set('crawler', 'filename', cfname) on a file without the section
                /\ conf' = NoConf
                /\ confgen' = confgen
                /\ confcall' = [call EXCEPT !.out = "raise", !.exc = "NoSectionError"]
           ELSE /\ conf' = read(fresh, [a EXCEPT !.name = name])
                /\ confgen' = confgen + 1
                /\ confcall' = [call EXCEPT !.out = "return", !.id = conf'.id]
        /\ UNCHANGED << qtvars, dbvars, rest >>

InitCfg == InitWith({[text |-> "", parts |-> << >>]}, {Day0 * (24 * 3600)})

NextCfg ==
    \/ \E kind \in {"filename", "cfg", "dct", "none"}, a \in ArgData, close \in BOOLEAN,
       found \in BOOLEAN : AddConfig(kind, a, close, found)
    \/ \E cfname \in CfNames, reset \in BOOLEAN, soft \in BOOLEAN, a \in ArgData,
          file \in FileStates : GetConfig(cfname, reset, soft, a, file)

SpecCfg == InitCfg /\ [][NextCfg]_vars

\* ------------------------------------------------------------------------
\* SpecClock: fresh configs holding a clock range and its reverse, or clock
\* ranges with hours of 24 and more or minutes of 60 and more, asked in turn
\* at every instant of the clock
\* ------------------------------------------------------------------------
\* object 1 holds a range, object 2 the range with its times exchanged
RevFams ==
    { [text |-> "14:00-19:00", parts |-> << "19:00-14:00" >>],
      [text |-> "19:00-03:00", parts |-> << "03:00-19:00" >>],
      [text |-> "19:17-03:00", parts |-> << "03:00-19:17" >>] }

\* clock ranges whose hours and minutes no clock shows
OddFams ==
    { [text |-> "24:30-25:00", parts |-> << "10:99-11:00", "00:00-24:00" >>],
      [text |-> "00:00-24:00", parts |-> << "24:00-24:01", "3:60-19:00" >>],
      [text |-> "24:30", parts |-> << "25:00-" >>] }

InitClock == InitWith(RevFams \cup OddFams, {Day0 * (24 * 3600)})

SpecClock == InitClock /\ [][Next]_vars

\* ------------------------------------------------------------------------
\* SpecShift: fresh configs holding the same text, the first asked about the
\* instant now, the second about a day later, the third about a week later
\* ------------------------------------------------------------------------
ShiftTexts ==
    { "14:00-19:00", "19:00-03:00", "14:00-19:00,19:00-03:00", "sat", "Wednes,14:00-19:00",
      "2014.0401", "2014.0401,14:00-19:00", "2014.0408,sat,19:00-03:00", "2014.0230,sat" }

ShiftFams == {[text |-> tx, parts |-> << tx, tx, tx >>] : tx \in ShiftTexts}

\* how much later than now each object is asked about
Shifts == << 0, 24 * 3600, 24 * 3600 * 7, 0 >>

AskShift ==
    /\ turn \in Objs
    /\ Call(1, turn, now + Shifts[turn])
    /\ turn' = turn + 1

InitShift == InitWith(ShiftFams, {Day0 * (24 * 3600)})

NextShift == AskShift \/ Tick \/ Step(1)

SpecShift == InitShift /\ [][NextShift]_vars

\* ------------------------------------------------------------------------
\* SpecTok: fresh configs holding one token each, and texts with empty
\* tokens, asked in turn over the last instants of the clock
\* ------------------------------------------------------------------------
\* tokens: weekday text that one name holds, that several or no names hold,
\* dates that exist and that do not, tokens with one to three clock times
ParseToks ==
    { "monday", "Wednes", "sat", "SUN", "Fri", "m", "f", "w", "th", "su",
      "s", "t", "tu", "T", "es", "day", "ur", "monday tuesday", "xyz", "bogus",
      "2014.0401", "2015.0401", "2014.0230", "2014.04011", "2014-0401", "14-19",
      "14:00-19:00", "19:00-03:00", "19:17-19:17", "9:05 to 10:15", "1:2:3:4",
      "12:30", "1:2:3", "1:00-2:00-3:00", "nesday", "ri", "onday" }

ParseFams == {[text |-> tk, parts |-> << >>] : tk \in ParseToks}

\* texts with an empty token after, before and between the others
EmptyTokFams ==
    { [text |-> "sat,", parts |-> << "sat" >>],
      [text |-> ",sat", parts |-> << "sat" >>],
      [text |-> "14:00-19:00,,Wednes", parts |-> << "14:00-19:00", "Wednes" >>],
      [text |-> "2015.0401, ,19:00-03:00", parts |-> << "2015.0401", "19:00-03:00" >>] }

TokFams == ParseFams \cup EmptyTokFams \cup TripleFams \cup OtherFams

\* the instants from noon of the last day of Days on
LastWhens == {t \in Whens : t >= (Day0 + 366) * (24 * 3600) + 12 * 3600}

InitTok == InitWith(TokFams, LastWhens)

SpecTok == InitTok /\ [][Next]_vars

\* ------------------------------------------------------------------------
\* Properties of quiet_time on fresh configs (checked under Spec)
\* ------------------------------------------------------------------------
\* the last call on o returned a value
Answered(o) == res[o].done /\ ~res[o].raised

\* o's text is one token, which parsed to a window of the kind with period p
OneWindow(o, p) ==
    /\ res[o].done /\ qt[o].has /\ Len(qt[o].list) = 1 /\ qt[o].list[1].iter = p
    /\ has_option(o) /\ ~Contains(",", cfg[o].value)

\* seconds since local midnight
SecOfDay(t) == t % (24 * 3600)

\* every token of o's text parses
AllParse(o) ==
    has_option(o) =>
        LET l == csv_list(cfg[o].value) IN \A k \in 1..Len(l) : IsWindow(qt_parse(l[k]))

\* objects 2 and 3 hold the two tokens of object 1, objects 2..4 its three tokens
TwoTokens ==
    /\ has_option(1) /\ has_option(2) /\ has_option(3)
    /\ cfg[1].value = cfg[2].value \o "," \o cfg[3].value

ThreeTokens ==
    /\ has_option(1) /\ has_option(2) /\ has_option(3) /\ has_option(4)
    /\ cfg[1].value = cfg[2].value \o "," \o cfg[3].value \o "," \o cfg[4].value

\* C1: quiet_time(t) on a fresh config with 'A,B' is the OR of quiet_time(t)
\* on fresh configs with 'A' and with 'B', when A and B parse on their own;
\* likewise for three tokens.
C1_OrAcrossTokens ==
    /\ (res[1].done /\ Answered(2) /\ Answered(3) /\ TwoTokens
            /\ AllParse(2) /\ AllParse(3))
          => (Answered(1) /\ res[1].val = (res[2].val \/ res[3].val))
    /\ (res[1].done /\ Answered(2) /\ Answered(3) /\ Answered(4) /\ ThreeTokens
            /\ AllParse(2) /\ AllParse(3) /\ AllParse(4))
          => (Answered(1) /\ res[1].val = (res[2].val \/ res[3].val \/ res[4].val))

\* the first of two tokens is quiet at now on its own, the second is not
C1_Witness ==
    /\ TwoTokens /\ Answered(1) /\ Answered(2) /\ Answered(3)
    /\ res[2].val /\ ~res[3].val /\ res[1].val

\* C2: an upside-down range (hi < lo) is quiet exactly from midnight to hi and
\* from lo to the next midnight, both ends included, on every day.
C2_WrappingRange ==
    \A o \in Objs :
        (OneWindow(o, 24 * 3600) /\ qt[o].list[1].hi < qt[o].list[1].lo) =>
            LET t   == res[o].when
                lo  == qt[o].list[1].lo
                hi  == qt[o].list[1].hi
                db  == t - SecOfDay(t)
            IN  /\ Answered(o)
                /\ res[o].val = ((db <= t /\ t <= db + hi) \/ (db + lo <= t /\ t <= db + 86400))
                /\ (SecOfDay(t) \in {lo, hi}) => res[o].val
                /\ (SecOfDay(t) >= lo \/ SecOfDay(t) <= hi) => res[o].val
                /\ (hi < SecOfDay(t) /\ SecOfDay(t) < lo) => ~res[o].val

\* midnight is quiet under '19:00-03:00'
C2_Witness ==
    \E o \in Objs :
        /\ OneWindow(o, 24 * 3600) /\ qt[o].list[1].spec = "19:00-03:00"
        /\ qt[o].list[1].hi < qt[o].list[1].lo
        /\ SecOfDay(res[o].when) = 0 /\ Answered(o) /\ res[o].val

\* C3: a right-side-up range (lo < hi) is quiet exactly from lo to hi, both
\* ends included, on every day.
C3_RightSideUp ==
    \A o \in Objs :
        (OneWindow(o, 24 * 3600) /\ qt[o].list[1].lo < qt[o].list[1].hi) =>
            LET t   == res[o].when
                lo  == qt[o].list[1].lo
                hi  == qt[o].list[1].hi
                db  == t - SecOfDay(t)
            IN  /\ Answered(o)
                /\ res[o].val = (db + lo <= t /\ t <= db + hi)
                /\ (t = db + lo - 1 \/ t = db + hi + 1) => ~res[o].val

\* the last instant hi of '14:00-19:00' is quiet
C3_Witness ==
    \E o \in Objs :
        /\ OneWindow(o, 24 * 3600) /\ qt[o].list[1].spec = "14:00-19:00"
        /\ qt[o].list[1].lo < qt[o].list[1].hi
        /\ SecOfDay(res[o].when) = qt[o].list[1].hi /\ Answered(o) /\ res[o].val

\* C4: a date 'YYYY.MMDD' is quiet exactly from its midnight to 86399 seconds
\* later, both included, and on no other day.
C4_OneShotDate ==
    \A o \in Objs :
        OneWindow(o, 0) =>
            LET t   == res[o].when
                mid == qt[o].list[1].base
            IN  /\ Answered(o)
                /\ qt[o].list[1].spec = "2014.0401" => mid = (Day0 + 1) * 86400
                /\ res[o].val = (mid <= t /\ t <= mid + 86399)

\* the last second of 2014.0401 is quiet
C4_Witness ==
    \E o \in Objs :
        /\ OneWindow(o, 0) /\ qt[o].list[1].spec = "2014.0401"
        /\ res[o].when = (Day0 + 1) * 86400 + 86399 /\ Answered(o) /\ res[o].val

\* the local weekday of t, Monday = 0, counted from Monday 2014.0331
LocalWeekday(t) == ((t \div 86400) - Day0) % 7

\* C5: a weekday token is quiet exactly on its weekday (Monday = 0), every
\* week, whatever lo and hi are.
C5_Weekday ==
    \A o \in Objs :
        OneWindow(o, 604800) =>
            /\ Answered(o)
            /\ res[o].val = (LocalWeekday(res[o].when) = qt[o].list[1].base)
            /\ qt[o].list[1].spec = "Wednes" => qt[o].list[1].base = 2
            /\ qt[o].list[1].spec = "sat" => qt[o].list[1].base = 5

\* the last second of the Wednesday of the second week is quiet under 'Wednes'
C5_Witness ==
    \E o \in Objs :
        /\ OneWindow(o, 604800) /\ qt[o].list[1].spec = "Wednes"
        /\ res[o].when = (Day0 + 9) * 86400 + 86399 /\ Answered(o) /\ res[o].val

\* C6: a range with lo = hi is quiet at the instant lo of every day and at
\* no other instant; it is no error.
C6_DegenerateRange ==
    \A o \in Objs :
        (OneWindow(o, 24 * 3600) /\ qt[o].list[1].lo = qt[o].list[1].hi) =>
            LET t  == res[o].when
                db == t - SecOfDay(t)
            IN  /\ Answered(o)
                /\ res[o].val = (t = db + qt[o].list[1].lo)

\* 19:17:00 is quiet under '19:17-19:17'
C6_Witness ==
    \E o \in Objs :
        /\ OneWindow(o, 24 * 3600) /\ qt[o].list[1].spec = "19:17-19:17"
        /\ SecOfDay(res[o].when) = 19 * 3600 + 17 * 60 /\ Answered(o) /\ res[o].val

\* o has no quiet_time text: no section, no option, or only whitespace
NoText(o) == ~cfg[o].section \/ ~cfg[o].has \/ Strip(cfg[o].value) = ""

\* C7: without a crawler.quiet_time text, every call of quiet_time returns
\* False and none raises.
C7_NoWindows ==
    \A o \in Objs : (res[o].done /\ NoText(o)) => (Answered(o) /\ ~res[o].val)

\* calls on a config with a blank text and on one without the section returned
C7_Witness ==
    /\ cfg[1].has /\ cfg[1].value = "   " /\ Answered(1) /\ qt[1].has
    /\ \E o \in Objs : ~cfg[o].section /\ Answered(o) /\ qt[o].has

\* C8: if a token fails to parse, no window list is cached and no call
\* returns an answer computed from the tokens before it.
C8_AllOrNothing ==
    \A o \in Objs : Answered(o) => AllParse(o)

\* ------------------------------------------------------------------------
\* Properties of the cached window list
\* ------------------------------------------------------------------------
\* quiet_time(t) as the text that o holds now gives it: some window parsed
\* from a token of the text is hit at t
QuietUnder(o, t) ==
    /\ has_option(o)
    /\ LET l == csv_list(cfg[o].value) IN \E k \in 1..Len(l) : qt_hit(qt_parse(l[k]), t)

\* C9: the window list follows the configuration: after read() and set(),
\* quiet_time(t) is the evaluation of t against the text the config holds now.
C9_CacheFollowsConfig ==
    \A o \in Objs : (Answered(o) /\ AllParse(o)) => res[o].val = QuietUnder(o, res[o].when)

\* C10: with two threads calling quiet_time on a config whose list is not yet
\* built, each call returns the value given by the fully parsed text.
C10_NoPartialList ==
    /\ \A th \in Threads : (pc[th] = "loop" /\ AllParse(self[th])) =>
           LET l == csv_list(cfg[self[th]].value)
               q == qt[self[th]].list
           IN  \A k \in 1..Len(l) : \E j \in 1..Len(q) : q[j] = qt_parse(l[k])
    /\ \A o \in Objs : (Answered(o) /\ AllParse(o)) => res[o].val = QuietUnder(o, res[o].when)

\* ------------------------------------------------------------------------
\* Properties of evaluation and of the parser, on one-token configs
\* ------------------------------------------------------------------------
\* C11: evaluation is pure: a turn of the loop over the window list changes
\* nothing but the answer; it creates no logger and writes no log record.
C11_EvalPure ==
    [][\A th \in Threads : EvalNext(th) => UNCHANGED << cfg, qt, logger, logfile >>]_vars

\* C12: every entry of a window list has a period of 0, 86400 or 604800, so
\* each turn of the loop takes one of the three branches and never raises.
C12_NoErrorPath ==
    /\ \A o \in Objs : \A k \in 1..Len(qt[o].list) : qt[o].list[k].iter \in {0, 86400, 604800}
    /\ \A o \in Objs : res[o].done => res[o].msg # "Hell has frozen over"
    /\ \A th \in Threads : pc[th] = "loop" => ENABLED (EvalNext(th) \/ Return(th))

\* a call has gone through a list holding a window of each of the three kinds
C12_Witness ==
    \E o \in Objs :
        /\ Answered(o) /\ Len(qt[o].list) = 3
        /\ {qt[o].list[k].iter : k \in 1..3} = {0, 86400, 604800}

\* the windows of the tokens of o's text, in the order of the text
WindowsOf(o) ==
    IF has_option(o)
    THEN LET l == csv_list(cfg[o].value) IN [k \in 1..Len(l) |-> qt_parse(l[k])]
    ELSE << >>

\* C13: the window list is built once: while a call builds it, it holds the
\* windows of the tokens parsed so far; from then on it holds the windows of
\* all the tokens in order, whatever calls follow, and no call parses again.
C13_ImmutableList ==
    \A o \in Objs : (qt[o].has /\ AllParse(o)) =>
        LET w == WindowsOf(o)
        IN  /\ (pc[1] = "idle" \/ self[1] # o \/ pc[1] \in {"try", "loop"}) => qt[o].list = w
            /\ (self[1] = o /\ pc[1] = "read") => qt[o].list = << >>
            /\ (self[1] = o /\ pc[1] = "parse") =>
                   /\ Len(toks[1]) <= Len(w)
                   /\ qt[o].list = SubSeq(w, 1, Len(w) - Len(toks[1]))

\* a later call goes through the three windows of config 1: config 2, asked
\* after it at every instant, has its list already
C13_Witness ==
    /\ Len(qt[1].list) = 3 /\ AllParse(1)
    /\ self[1] = 1 /\ pc[1] = "loop" /\ it[1] = 2
    /\ qt[2].has

\* o's text is a single token as it stands
SingleToken(o) ==
    /\ has_option(o) /\ cfg[o].value # ""
    /\ ~Contains(",", cfg[o].value) /\ Strip(cfg[o].value) = cfg[o].value

\* the indexes (Monday = 0) of the weekday names that hold the lower-cased token
NamesHolding(tk) ==
    {d \in 0..6 :
        Contains(Lower(tk), << "monday", "tuesday", "wednesday", "thursday",
                               "friday", "saturday", "sunday" >>[d + 1])}

NoDigit(tk) == \A i \in 1..Len(tk) : ~IsDigit(tk, i)

\* C14: a weekday window is in the list only for a token that exactly one
\* weekday name holds, with that name's index as base; parsing a token that
\* several names hold, or a digit-free token that no name holds, raises.
C14_AmbiguousWeekday ==
    /\ [](\A o \in Objs : SingleToken(o) =>
             \A k \in 1..Len(qt[o].list) :
                 qt[o].list[k].iter = 604800 => NamesHolding(cfg[o].value) = {qt[o].list[k].base})
    /\ [][\A th \in Threads :
             (/\ pc[th] = "parse"
              /\ pc'[th] # "parse" \/ toks'[th] # toks[th]
              /\ LET n == NamesHolding(Head(toks[th]))
                 IN  Cardinality(n) > 1 \/ (n = {} /\ NoDigit(Head(toks[th]))))
             => (/\ pc'[th] = "idle"
                 /\ res'[self[th]].raised
                 /\ res'[self[th]].exc \in {"ValueError", "StandardError"}
                 /\ qt' = qt)]_vars

\* 'tu', held by tuesday and saturday, has raised; 'sat' gave a Saturday window
C14_Witness ==
    \E o, p \in Objs :
        /\ cfg[o].value = "tu" /\ SingleToken(o) /\ res[o].raised /\ qt[o].list = << >>
        /\ cfg[p].value = "sat" /\ SingleToken(p) /\ Answered(p)
        /\ Len(qt[p].list) = 1 /\ qt[p].list[1].iter = 604800 /\ qt[p].list[1].base = 5

\* the tokens of o's text that are not empty
NonEmptyTokens(o) ==
    IF has_option(o) THEN SelectSeq(csv_list(cfg[o].value), LAMBDA x : x # "") ELSE << >>

\* o's text has an empty token next to tokens that all parse
HasEmptyToken(o) ==
    /\ has_option(o)
    /\ \E k \in 1..Len(csv_list(cfg[o].value)) : csv_list(cfg[o].value)[k] = ""
    /\ \A k \in 1..Len(NonEmptyTokens(o)) : IsWindow(qt_parse(NonEmptyTokens(o)[k]))

\* C15: empty tokens are skipped: a call on a text with an empty token raises
\* nothing and answers as the non-empty tokens alone do.
C15_EmptyTokensSkipped ==
    \A o \in Objs : (res[o].done /\ HasEmptyToken(o)) =>
        /\ ~res[o].raised
        /\ res[o].val = \E k \in 1..Len(NonEmptyTokens(o)) :
                            qt_hit(qt_parse(NonEmptyTokens(o)[k]), res[o].when)

\* tokens that are neither weekday text, nor a date that exists, nor two clock times
Unrecognised ==
    { "bogus", "xyz", "14-19", "2014.0230", "2014.04011", "2014-0401",
      "12:30", "1:2:3", "1:00-2:00-3:00" }

\* tokens holding exactly two clock times, with hours and minutes of each
TwoClocks ==
    [tk \in {"14:00-19:00", "19:00-03:00", "19:17-19:17", "9:05 to 10:15", "1:2:3:4"} |->
        CASE tk = "14:00-19:00"   -> << 14, 0, 19, 0 >>
          [] tk = "19:00-03:00"   -> << 19, 0, 3, 0 >>
          [] tk = "19:17-19:17"   -> << 19, 17, 19, 17 >>
          [] tk = "9:05 to 10:15" -> << 9, 5, 10, 15 >>
          [] tk = "1:2:3:4"       -> << 1, 2, 3, 4 >>]

\* C16: parsing an unrecognised token raises "qt_parse fails on '<token>'" and
\* appends nothing; a token with exactly two clock times gives one daily
\* range whatever separates the two.
C16_Unrecognised ==
    /\ [](\A o \in Objs :
             (SingleToken(o) /\ cfg[o].value \in DOMAIN TwoClocks /\ res[o].done) =>
                 /\ ~res[o].raised
                 /\ Len(qt[o].list) = 1 /\ qt[o].list[1].iter = 86400)
    /\ [][\A th \in Threads :
             (/\ pc[th] = "parse"
              /\ pc'[th] # "parse" \/ toks'[th] # toks[th]
              /\ Head(toks[th]) \in Unrecognised)
             => (/\ pc'[th] = "idle"
                 /\ res'[self[th]].raised
                 /\ res'[self[th]].msg = "qt_parse fails on '" \o Head(toks[th]) \o "'"
                 /\ qt' = qt)]_vars

\* '1:00-2:00-3:00' has raised with its message
C16_Witness ==
    \E o \in Objs :
        /\ SingleToken(o) /\ cfg[o].value = "1:00-2:00-3:00"
        /\ res[o].raised /\ res[o].msg = "qt_parse fails on '1:00-2:00-3:00'"

\* the epoch of local midnight of the dates of the texts
MidnightOf ==
    [tk \in {"2014.0401", "2015.0401"} |->
        IF tk = "2014.0401" THEN 1396310400 ELSE 1427846400]

\* C17: every window has one of three shapes: weekday (lo 0, hi 86399, base
\* 0..6, period 604800), date (lo 0, hi 86399, base the local midnight of the
\* date, period 0), clock range (lo and hi the seconds of the two times, base
\* -1, period 86400); only a clock range can have lo >= hi.
C17_WindowShapes ==
    \A o \in Objs : \A k \in 1..Len(qt[o].list) :
        LET x == qt[o].list[k]
        IN  /\ DOMAIN x = {"spec", "lo", "hi", "base", "iter"}
            /\ \/ x.iter = 604800 /\ x.lo = 0 /\ x.hi = 86399 /\ x.base \in 0..6
               \/ x.iter = 0 /\ x.lo = 0 /\ x.hi = 86399 /\ x.base % 86400 = 0
               \/ x.iter = 86400 /\ x.base = -1 /\ x.lo >= 0 /\ x.hi >= 0
            /\ x.spec \in DOMAIN MidnightOf => (x.iter = 0 /\ x.base = MidnightOf[x.spec])
            /\ x.spec \in DOMAIN TwoClocks =>
                   LET c == TwoClocks[x.spec]
                   IN  /\ x.iter = 86400
                       /\ x.lo = c[1] * 3600 + c[2] * 60
                       /\ x.hi = c[3] * 3600 + c[4] * 60
            /\ x.lo >= x.hi => x.iter = 86400

\* a list holds an upside-down range, the date 2014.0401 and a Saturday
C17_Witness ==
    \E o \in Objs :
        /\ Len(qt[o].list) = 3
        /\ qt[o].list[1].spec = "19:00-03:00" /\ qt[o].list[1].lo > qt[o].list[1].hi
        /\ qt[o].list[2].spec = "2014.0401" /\ qt[o].list[2].base = 1396310400
        /\ qt[o].list[3].spec = "sat" /\ qt[o].list[3].base = 5

\* ------------------------------------------------------------------------
\* Properties of DBI objects
\* ------------------------------------------------------------------------
\* C18: on a DBI object whose close() has returned, every call of a
\* forwarded method and of close raises 'Cannot operate on a closed database'
\* and the backend object is not called, closed stays True, and repr()
\* begins with '[closed]'.
C18_ClosedUnusable ==
    /\ [](\A d \in DbObjs : (dbi[d].closed /\ dbcall.obj = d) =>
             \/ dbcall.meth = "close" /\ dbcall.out = "return"
             \/ /\ dbcall.meth \in DbMeths \cup {"close"}
                /\ dbcall.out = "raise"
                /\ dbcall.val = "Cannot operate on a closed database"
             \/ dbcall.meth = "repr" /\ SubSeq(dbcall.val, 1, 8) = "[closed]")
    /\ [][\A d \in DbObjs : dbi[d].closed =>
             /\ dbi'[d].closed
             /\ dbi'[d].ncalls = dbi[d].ncalls
             /\ (dbcall'.obj = d /\ dbcall' # dbcall) => dbcall'.out = "raise" \/ dbcall'.meth = "repr"]_vars

\* select on a closed object has raised; the backend served one call, the close
C18_Witness ==
    \E d \in DbObjs :
        /\ dbi[d].closed /\ dbi[d].ncalls = 1
        /\ dbcall = [obj |-> d, meth |-> "select", out |-> "raise",
                     val |-> "Cannot operate on a closed database"]

\* ------------------------------------------------------------------------
\* Properties of the logger singleton
\* ------------------------------------------------------------------------
\* the loggers closed so far: those made, less the one that is cached
LoggersClosed == loggen - (IF logger THEN 1 ELSE 0)

C20_AddConfigMerges ==
    [][(/\ confvars' # confvars
        /\ conf.has
        /\ ~confcall'.close
        /\ confcall'.kind \in {"filename", "cfg", "dct"})
       => LET a == CHOOSE x \in ArgData : x.name = confcall'.arg
          IN  /\ confcall'.out = "return"
              /\ confcall'.id = conf.id
              /\ conf'.has /\ conf'.id = conf.id
              /\ a.secs \subseteq conf'.secs
              /\ \A s \in SectionSet : \A o \in Options :
                     conf'.opt[s][o] = IF Names(a, s, o) THEN a.opt[s][o] ELSE conf.opt[s][o]]_vars

\* the call that has just ended discarded the cached config and made none
Discards(call) ==
    \/ call.kind = "get_config" /\ call.close /\ call.soft
    \/ call.kind = "none" /\ call.close

\* C21: get_config without reset returns the cached config whenever there is
\* one, whatever cfname is, and leaves it as it is; get_config(reset=True,
\* soft=True) and add_config(close=True) without filename, cfg or dct leave no
\* cached config, return None and make no config object; a get_config(soft=True)
\* right after such a call returns None.
C21_Singleton ==
    [][(confvars' # confvars) =>
         /\ (confcall'.kind = "get_config" /\ ~confcall'.close /\ conf.has)
              => (confcall'.out = "return" /\ confcall'.id = conf.id /\ conf' = conf)
         /\ Discards(confcall')
              => (confcall'.out = "none" /\ ~conf'.has /\ confgen' = confgen)
         /\ (Discards(confcall) /\ confcall.out = "none"
               /\ confcall'.kind = "get_config" /\ confcall'.soft)
              => (confcall'.out = "none" /\ ~conf'.has /\ confgen' = confgen)]_vars

\* a config was cached, and get_config('other.cfg') without reset returned it
C21_Witness ==
    /\ confcall.kind = "get_config" /\ ~confcall.close /\ confcall.arg = "other.cfg"
    /\ confcall.out = "return" /\ conf.has /\ confcall.id = conf.id /\ conf.file # "other.cfg"

\* ------------------------------------------------------------------------
\* Properties of db_context
\* ------------------------------------------------------------------------
\* C22: when control has left a with db_context block, normally or by an
\* exception of the body, the DBI object of the block is closed.
C22_ContextCloses ==
    (ctx.pc = "left" /\ ctx.closeout # "raise") => dbi[ctx.obj].closed

\* ------------------------------------------------------------------------
\* Properties of retry and err_handler (checked under SpecRetry)
\* ------------------------------------------------------------------------
\* the payload is called only while it has not returned and less than the
\* timeout has elapsed; a DBIerror of err_handler ends the call of retry
RetrySteps ==
    [][/\ (rt'.pcalls > rt.pcalls) => (~rt.done /\ elapsed < rt.timeout)
       /\ (rt.pc = "handler" /\ rt'.exc = "DBIerror") => (rt'.pc = "idle" /\ rt'.out = "raise")]_vars

\* retry returns the value of the one payload call that returned, the last call
RetryValue ==
    /\ rt.done => (rt.rval = rt.pcalls /\ rt.fails = rt.pcalls - 1)
    /\ ~rt.done => rt.rval = None
    /\ rt.out = "raise" => rt.pc = "idle" /\ ~rt.done

\* err_handler calls still owed: one while control is in the handler
Owed == IF rt.pc = "handler" THEN 1 ELSE 0

C25_BackOff ==
    /\ [](nretry >= 1 =>
            /\ slept = Min(Pow2(nretry - 1), SleepCap(backend))
            /\ sleeptime = Min(Pow2(nretry), SleepCap(backend))
            /\ slept <= SleepCap(backend))
    /\ [][/\ (nretry' > nretry) => (nretry' = nretry + 1 /\ slept' >= slept
                                     /\ elapsed' = elapsed + slept')
          /\ (rt'.done /\ ~rt.done) => (sleeptime' = sleeptime /\ nretry' = nretry)
          /\ (rt.pc = "idle" /\ rt'.pc = "test") => (sleeptime' = sleeptime /\ nretry' = nretry)]_vars

\* a DBIdb2 object sleeps 60.0 seconds on its eleventh transient error
C25_Witness == backend = "db2" /\ nretry = 11 /\ slept = 600

\* C26: when the loop test finds the payload not returned and the timeout
\* elapsed, also before the first call with a timeout of zero or less, retry
\* returns None and raises nothing.
C26_GivesUpSilently ==
    /\ []((rt.pc = "idle" /\ rt.out = "return" /\ ~rt.done)
            => (rt.rval = None /\ rt.exc = "" /\ elapsed >= rt.timeout))
    /\ [][(rt.pc = "test" /\ ~rt.done /\ elapsed >= rt.timeout /\ rt' # rt)
            => /\ rt'.pc = "idle" /\ rt'.out = "return" /\ rt'.rval = None /\ rt'.exc = ""
               /\ rt.timeout <= 0 => rt'.pcalls = 0]_vars

\* every call of the payload failed with a transient error until the timeout was over
C26_Witness ==
    /\ rt.pc = "idle" /\ rt.out = "return" /\ ~rt.done /\ rt.rval = None
    /\ rt.timeout > 0 /\ rt.pcalls >= 2 /\ rt.hcalls = rt.pcalls

\* ------------------------------------------------------------------------
\* Properties of config.read (checked under SpecRead)
\* ------------------------------------------------------------------------
\* C24: a call of read() comes to its end, whatever the files include and
\* whichever of them exist; a name found in an include option is passed to the
\* parser at most once and is marked in incl when the round that passed it is
\* over, read or not; a round with files that could not be read gives one
\* warning, any other round none.
C24_IncludesTerminate ==
    /\ (rd.pc = "loop") ~> (rd.pc = "done")
    /\ [](/\ \A f \in FileNames : rd.passed[f] <= 1
          /\ \A f \in FileNames : (rd.passed[f] = 1) => rd.incl[f] = "true"
          /\ rd.unparsed \subseteq {f \in FileNames : rd.incl[f] = "true"})
    /\ [][(rd.pc = "loop" /\ rd'.pc = "loop" /\ rd' # rd)
            => rd'.warns = rd.warns + (IF rd'.unparsed # {} THEN 1 ELSE 0)]_vars

\* read() has returned after rounds that passed a missing file and files
\* including each other in a cycle, with one warning
C24_Witness ==
    /\ rd.pc = "done" /\ rd.out = "return" /\ rd.warns = 1
    /\ rd.passed["nosuch.cfg"] = 1 /\ rd.passed[RootFile] = 1 /\ rd.passed["include1.cfg"] = 1

\* the indexes (Monday = 0) of the weekday names that begin with the lower-cased token
NamesBeginning(tk) ==
    {d \in 0..6 : /\ Len(tk) >= 1 /\ Len(tk) <= Len(WdayNames[d + 1])
                  /\ SubSeq(WdayNames[d + 1], 1, Len(tk)) = Lower(tk)}

\* C27: a token gives a weekday window only if its lower-cased form begins a
\* weekday name; a token that exactly one name holds without beginning with it
\* raises "qt_parse fails on '<token>'"; a token that begins exactly one name
\* and that another name holds as well is rejected.
C27_WeekdayPrefix ==
    /\ [](\A o \in Objs : \A k \in 1..Len(qt[o].list) :
             qt[o].list[k].iter = 604800 => NamesBeginning(qt[o].list[k].spec) # {})
    /\ [][\A th \in Threads :
             (/\ pc[th] = "parse"
              /\ pc'[th] # "parse" \/ toks'[th] # toks[th])
             => LET tk   == Head(toks[th])
                    pre  == NamesBeginning(tk)
                    held == NamesHolding(tk)
                    o    == self[th]
                IN  /\ (Cardinality(held) = 1 /\ pre = {})
                         => (/\ pc'[th] = "idle" /\ res'[o].raised
                             /\ res'[o].exc = "StandardError"
                             /\ res'[o].msg = "qt_parse fails on '" \o tk \o "'"
                             /\ qt' = qt)
                    /\ (Cardinality(pre) = 1 /\ Cardinality(held) > 1)
                         => (pc'[th] = "idle" /\ res'[o].raised /\ qt' = qt)]_vars

\* 'nesday', held by wednesday alone, has raised as an unrecognised token
C27_Witness ==
    \E o \in Objs :
        /\ SingleToken(o) /\ cfg[o].value = "nesday" /\ NamesHolding("nesday") = {2}
        /\ res[o].done /\ res[o].raised /\ res[o].msg = "qt_parse fails on 'nesday'"

\* ------------------------------------------------------------------------
\* Properties of clock ranges (checked under SpecClock)
\* ------------------------------------------------------------------------
\* objects 1 and 2 hold one clock range each, with the same two different
\* times before 24:00 in opposite order, and have answered about the same instant
Reversed ==
    /\ OneWindow(1, 24 * 3600) /\ OneWindow(2, 24 * 3600)
    /\ qt[1].list[1].lo = qt[2].list[1].hi /\ qt[1].list[1].hi = qt[2].list[1].lo
    /\ qt[1].list[1].lo # qt[1].list[1].hi
    /\ qt[1].list[1].lo < 24 * 3600 /\ qt[1].list[1].hi < 24 * 3600
    /\ res[2].done /\ res[1].when = res[2].when

\* C28: of the specs 'a-b' and 'b-a' at least one is quiet at every instant,
\* and both are quiet only at the time of day a or b.
C28_ReverseComplement ==
    Reversed =>
        /\ Answered(1) /\ Answered(2)
        /\ res[1].val \/ res[2].val
        /\ (res[1].val /\ res[2].val)
             => SecOfDay(res[1].when) \in {qt[1].list[1].lo, qt[1].list[1].hi}

\* at 19:00:01 '19:00-03:00' is quiet and '03:00-19:00' is not
C28_Witness ==
    /\ Reversed /\ cfg[1].value = "19:00-03:00" /\ cfg[2].value = "03:00-19:00"
    /\ SecOfDay(res[1].when) = 19 * 3600 + 1 /\ res[1].val /\ ~res[2].val

\* the tokens of OddFams and the lo and hi each stands for
OddClocks ==
    { [tok |-> "24:30-25:00", lo |-> 24 * 3600 + 30 * 60, hi |-> 25 * 3600],
      [tok |-> "10:99-11:00", lo |-> 10 * 3600 + 99 * 60, hi |-> 11 * 3600],
      [tok |-> "00:00-24:00", lo |-> 0, hi |-> 24 * 3600],
      [tok |-> "24:00-24:01", lo |-> 24 * 3600, hi |-> 24 * 3600 + 60],
      [tok |-> "3:60-19:00", lo |-> 3 * 3600 + 60 * 60, hi |-> 19 * 3600] }

\* C30: a clock range with hours of 24 or more or minutes of 60 or more is
\* taken without error, lo and hi being hours*3600 + minutes*60; a range with
\* 86400 <= lo < hi is quiet at no instant, '00:00-24:00' at every instant.
C30_ClockNotChecked ==
    \A o \in Objs : (SingleToken(o) /\ res[o].done) =>
        /\ \A c \in OddClocks : (cfg[o].value = c.tok) =>
              /\ Answered(o) /\ OneWindow(o, 24 * 3600)
              /\ qt[o].list[1].lo = c.lo /\ qt[o].list[1].hi = c.hi
        /\ (OneWindow(o, 24 * 3600) /\ 86400 <= qt[o].list[1].lo
              /\ qt[o].list[1].lo < qt[o].list[1].hi) => (Answered(o) /\ ~res[o].val)
        /\ (cfg[o].value = "00:00-24:00") => res[o].val

\* at the last second of a day '24:30-25:00' is not quiet and '00:00-24:00' is
C30_Witness ==
    /\ cfg[1].value = "24:30-25:00" /\ Answered(1) /\ ~res[1].val
    /\ cfg[3].value = "00:00-24:00" /\ Answered(3) /\ res[3].val
    /\ res[3].when = res[1].when /\ SecOfDay(res[1].when) = 24 * 3600 - 1

\* ------------------------------------------------------------------------
\* Properties of the periods (checked under SpecShift)
\* ------------------------------------------------------------------------
\* the three objects have answered about now, a day later and a week later
Shifted ==
    /\ cfg[1].value = cfg[2].value /\ cfg[1].value = cfg[3].value
    /\ Answered(1) /\ Answered(2) /\ Answered(3)
    /\ res[2].when = res[1].when + 86400 /\ res[3].when = res[1].when + 604800

\* the periods of the windows of the text, and the days of its date tokens
PeriodsOf(o) == {qt[o].list[k].iter : k \in 1..Len(qt[o].list)}

DatesOf(o) == {qt[o].list[k].base : k \in {j \in 1..Len(qt[o].list) : qt[o].list[j].iter = 0}}

OnDate(o, t) == (t - SecOfDay(t)) \in DatesOf(o)

\* C29: a text of clock ranges answers the same a day later; a text of clock
\* ranges and weekdays answers the same a week later; with date tokens the
\* answers differ only if the instant or the later instant is on a listed date.
C29_Periods ==
    Shifted =>
        LET t == res[1].when
        IN  /\ PeriodsOf(1) \subseteq {86400} => res[1].val = res[2].val
            /\ PeriodsOf(1) \subseteq {86400, 604800} => res[1].val = res[3].val
            /\ (PeriodsOf(1) \subseteq {86400, 0} /\ res[1].val # res[2].val)
                 => (OnDate(1, t) \/ OnDate(1, t + 86400))
            /\ (res[1].val # res[3].val) => (OnDate(1, t) \/ OnDate(1, t + 604800))

\* on Saturday 2014.0405 at noon 'sat' is quiet, a day later not, a week later again
C29_Witness ==
    /\ Shifted /\ cfg[1].value = "sat" /\ res[1].when = (Day0 + 5) * 86400 + 12 * 3600
    /\ res[1].val /\ ~res[2].val /\ res[3].val

====
